---- MODULE Spec2Model ----
(***************************************************************************)
(* Policy rule validation and transformation engine of cdp-sdk (python).   *)
(*   src/python/cdp/policies/types.py                 user-facing models   *)
(*   src/python/cdp/policies/request_transformer.py   to_wire              *)
(*   src/python/cdp/policies/response_transformer.py  from_wire            *)
(*                                                                         *)
(* A Python str is a sequence of one-character strings.  A model instance  *)
(* is a record: its "cls" field is the Python class, the other fields are  *)
(* the attributes, so hasattr(x, "f") is "f" \in DOMAIN x and == is =.     *)
(***************************************************************************)
EXTENDS Integers, Sequences, FiniteSets, TLC

VARIABLES
    pc,               \* where the caller is: "idle", "to_wire", "from_wire", ...
    call,             \* the last constructor call or attribute assignment
    obj,              \* the user-facing instance the caller holds (None if none)
    outcome,          \* what the last constructor call did: "ok" or an error
    request_rules,    \* argument of map_request_rules_to_openapi_format
    openapi_rules,    \* argument of map_openapi_rules_to_response_format
    idx,              \* position of the running for-loop over the rules
    rules,            \* the local list the running call builds
    returned,         \* what the running call handed back to its caller
    raised,           \* the exception that left the running call
    threads           \* per thread: the transformer call the thread runs

vars == <<pc, call, obj, outcome, request_rules, openapi_rules, idx, rules,
          returned, raised, threads>>

None == "None"
\* the caller holds no instance
NoObject == [cls |-> None]
\* no constructor call or assignment was made yet
NoCall == [op |-> None, cls |-> None, args |-> [none |-> None]]

(***************************************************************************)
(* Bounds of the model.                                                    *)
(***************************************************************************)
\* longest criteria list handed to a rule constructor or a transformer
MaxCriteria == 2
\* longest rule list handed to a transformer
MaxRules == 3
\* longest list of conditions of an evmTypedDataField criterion
MaxConditions == 3
\* threads that call the transformers at the same time
NumThreads == 2

(***************************************************************************)
(* Characters and strings.                                                 *)
(***************************************************************************)
Rep(c, n) == [k \in 1..n |-> c]

SeqsUpTo(S, n) == UNION {[1..k -> S] : k \in 0..n}

\* "\n"
LF == "\n"
\* U+00B2 SUPERSCRIPT TWO: a character c outside 0-9 with c.isdigit() True
SUP2 == "U+00B2"

AsciiDigit == {"0", "1", "2", "3", "4", "5", "6", "7", "8", "9"}
HexChar == AsciiDigit \cup {"a", "b", "c", "d", "e", "f", "A", "B", "C", "D", "E", "F"}
\* the character class [1-9A-HJ-NP-Za-km-z]
Base58Char ==
    (AsciiDigit \ {"0"})
    \cup {"A", "B", "C", "D", "E", "F", "G", "H", "J", "K", "L", "M", "N",
          "P", "Q", "R", "S", "T", "U", "V", "W", "X", "Y", "Z"}
    \cup {"a", "b", "c", "d", "e", "f", "g", "h", "i", "j", "k",
          "m", "n", "o", "p", "q", "r", "s", "t", "u", "v", "w", "x", "y", "z"}

\* str.isdigit(): non-empty and every character has the Unicode digit
\* property, which the ASCII digits have and so has U+00B2
str_isdigit(v) ==
    /\ Len(v) > 0
    /\ \A k \in 1..Len(v) : v[k] \in AsciiDigit \cup {SUP2}

\* re.match(r"^0x[0-9a-fA-F]{40}$", addr) is not None.  Without re.MULTILINE
\* "$" matches at the end of the string and also just before a newline that
\* ends the string.
re_match_evm_address(addr) ==
    /\ \/ Len(addr) = 42
       \/ Len(addr) = 43 /\ addr[43] = LF
    /\ addr[1] = "0"
    /\ addr[2] = "x"
    /\ \A k \in 3..42 : addr[k] \in HexChar

\* re.compile(r"^[1-9A-HJ-NP-Za-km-z]{32,44}$").match(address) is not None
re_match_sol_address(address) ==
    \E n \in 32..44 :
        /\ \/ Len(address) = n
           \/ Len(address) = n + 1 /\ address[n + 1] = LF
        /\ \A k \in 1..n : address[k] \in Base58Char

(***************************************************************************)
(* Results of a call that may raise.                                       *)
(***************************************************************************)
Ok(v) == [ok |-> TRUE, val |-> v, err |-> None]
Raise(e) == [ok |-> FALSE, val |-> None, err |-> e]

\* UserInputValidationError raised in a field validator, or pydantic's own
\* error for a field that fails its declared type: construction fails
ValidationError == "ValidationError"

(***************************************************************************)
(* Field validators of types.py.  Each returns its input or raises.        *)
(***************************************************************************)
\* Action = Literal["reject", "accept"]
Action == {"reject", "accept"}

EthValueCriterion_operator == {">", "<", ">=", "<=", "==", "!="}
InNotIn == {"in", "not in"}
\* a third network was added to the Literal
EvmNetworks_with_mainnet == {"base-sepolia", "base", "mainnet"}
EvmNetworks == {"base-sepolia", "base"}
EvmTypedNumericalCondition_operator == {">", "<", ">=", "<=", "=="}

\* leading zeros are stripped from the value that is returned
RECURSIVE lstrip_zeros(_)
lstrip_zeros(v) == IF Len(v) > 0 /\ v[1] = "0" THEN lstrip_zeros(Tail(v)) ELSE v

EthValueCriterion_validate_eth_value_lstrip(v) ==
    IF ~str_isdigit(v) THEN Raise(ValidationError) ELSE Ok(lstrip_zeros(v))

EthValueCriterion_validate_eth_value(v) ==
    IF ~str_isdigit(v) THEN Raise(ValidationError) ELSE Ok(v)

EvmAddressCriterion_validate_addresses_length(v) ==
    IF Len(v) > 300 THEN Raise(ValidationError) ELSE Ok(v)

EvmAddressCriterion_validate_addresses_format(v) ==
    IF \E k \in 1..Len(v) : ~re_match_evm_address(v[k])
    THEN Raise(ValidationError) ELSE Ok(v)

\* "!=" was added to the enum values, as in EthValueCriterion.operator
EvmDataParameterCondition_validate_operator_enum_with_ne(value) ==
    IF value \notin {">", ">=", "<", "<=", "==", "!="}
    THEN Raise(ValidationError) ELSE Ok(value)

EvmDataParameterCondition_validate_operator_enum(value) ==
    IF value \notin {">", ">=", "<", "<=", "=="} THEN Raise(ValidationError) ELSE Ok(value)

EvmDataParameterConditionList_validate_operator_enum(value) ==
    IF value \notin {"in", "not in"} THEN Raise(ValidationError) ELSE Ok(value)

\* the limit is checked one too high
EvmTypedAddressCondition_validate_addresses_length_off_by_one(v) ==
    IF Len(v) > 301 THEN Raise(ValidationError) ELSE Ok(v)

EvmTypedAddressCondition_validate_addresses_length(v) ==
    IF Len(v) > 300 THEN Raise(ValidationError) ELSE Ok(v)

EvmTypedAddressCondition_validate_addresses_format(v) ==
    IF \E k \in 1..Len(v) : ~re_match_evm_address(v[k])
    THEN Raise(ValidationError) ELSE Ok(v)

EvmTypedNumericalCondition_validate_value(v) ==
    IF ~str_isdigit(v) THEN Raise(ValidationError) ELSE Ok(v)

VerifyingContract_validate_addresses_length(v) ==
    IF Len(v) > 300 THEN Raise(ValidationError) ELSE Ok(v)

\* the character class of the regular expression lost A-F
VerifyingContract_validate_addresses_format_lowercase(v) ==
    IF \E k \in 1..Len(v) :
           \/ ~re_match_evm_address(v[k])
           \/ \E j \in 3..42 : v[k][j] \in {"A", "B", "C", "D", "E", "F"}
    THEN Raise(ValidationError) ELSE Ok(v)

VerifyingContract_validate_addresses_format(v) ==
    IF \E k \in 1..Len(v) : ~re_match_evm_address(v[k])
    THEN Raise(ValidationError) ELSE Ok(v)

SolanaAddressCriterion_validate_address_format(v) ==
    IF \E k \in 1..Len(v) : ~re_match_sol_address(v[k])
    THEN Raise(ValidationError) ELSE Ok(v)

\* a field annotated Literal[...]: the value must be one of the literals
validate_literal(v, allowed) ==
    IF v \in allowed THEN Ok(v) ELSE Raise(ValidationError)

\* a field annotated list[Literal[...]]: every element must be one of them
validate_literal_list(v, allowed) ==
    IF \A k \in 1..Len(v) : v[k] \in allowed THEN Ok(v) ELSE Raise(ValidationError)

\* two field validators of one field run in definition order, the second on
\* what the first returned; the first error ends the field's validation
Then(r, V(_)) == IF r.ok THEN V(r.val) ELSE r

(***************************************************************************)
(* Constructors of the criterion and condition models of types.py.         *)
(***************************************************************************)
EthValueCriterion(ethValue, operator) ==
    LET v == EthValueCriterion_validate_eth_value(ethValue)
        o == validate_literal(operator, EthValueCriterion_operator)
    IN  IF v.ok /\ o.ok
        THEN Ok([cls |-> "EthValueCriterion", type |-> "ethValue",
                 ethValue |-> v.val, operator |-> o.val])
        ELSE Raise(ValidationError)

\* the result of the field validators is dropped
EvmAddressCriterion_unvalidated(addresses, operator) ==
    Ok([cls |-> "EvmAddressCriterion", type |-> "evmAddress",
        addresses |-> addresses, operator |-> operator])

EvmAddressCriterion(addresses, operator) ==
    LET a == Then(EvmAddressCriterion_validate_addresses_length(addresses),
                  EvmAddressCriterion_validate_addresses_format)
        o == validate_literal(operator, InNotIn)
    IN  IF a.ok /\ o.ok
        THEN Ok([cls |-> "EvmAddressCriterion", type |-> "evmAddress",
                 addresses |-> a.val, operator |-> o.val])
        ELSE Raise(ValidationError)

EvmNetworkCriterion(networks, operator) ==
    LET n == validate_literal_list(networks, EvmNetworks)
        o == validate_literal(operator, InNotIn)
    IN  IF n.ok /\ o.ok
        THEN Ok([cls |-> "EvmNetworkCriterion", type |-> "evmNetwork",
                 networks |-> n.val, operator |-> o.val])
        ELSE Raise(ValidationError)

EvmDataParameterCondition(name, operator, value) ==
    LET o == EvmDataParameterCondition_validate_operator_enum(operator)
    IN  IF o.ok
        THEN Ok([cls |-> "EvmDataParameterCondition", name |-> name,
                 operator |-> o.val, value |-> value])
        ELSE Raise(ValidationError)

EvmDataParameterConditionList(name, operator, values) ==
    LET o == EvmDataParameterConditionList_validate_operator_enum(operator)
    IN  IF o.ok
        THEN Ok([cls |-> "EvmDataParameterConditionList", name |-> name,
                 operator |-> o.val, values |-> values])
        ELSE Raise(ValidationError)

EvmTypedAddressCondition(addresses, operator, path) ==
    LET a == Then(EvmTypedAddressCondition_validate_addresses_length(addresses),
                  EvmTypedAddressCondition_validate_addresses_format)
        o == validate_literal(operator, InNotIn)
    IN  IF a.ok /\ o.ok
        THEN Ok([cls |-> "EvmTypedAddressCondition", addresses |-> a.val,
                 operator |-> o.val, path |-> path])
        ELSE Raise(ValidationError)

EvmTypedNumericalCondition(value, operator, path) ==
    LET v == EvmTypedNumericalCondition_validate_value(value)
        o == validate_literal(operator, EvmTypedNumericalCondition_operator)
    IN  IF v.ok /\ o.ok
        THEN Ok([cls |-> "EvmTypedNumericalCondition", value |-> v.val,
                 operator |-> o.val, path |-> path])
        ELSE Raise(ValidationError)

EvmTypedStringCondition(match, path) ==
    Ok([cls |-> "EvmTypedStringCondition", match |-> match, path |-> path])

EvmMessageCriterion(match) ==
    Ok([cls |-> "EvmMessageCriterion", type |-> "evmMessage", match |-> match])

SignEvmTypedDataVerifyingContractCriterion(addresses, operator) ==
    LET a == Then(VerifyingContract_validate_addresses_length(addresses),
                  VerifyingContract_validate_addresses_format)
        o == validate_literal(operator, InNotIn)
    IN  IF a.ok /\ o.ok
        THEN Ok([cls |-> "SignEvmTypedDataVerifyingContractCriterion",
                 type |-> "evmTypedDataVerifyingContract",
                 addresses |-> a.val, operator |-> o.val])
        ELSE Raise(ValidationError)

SolanaAddressCriterion(addresses, operator) ==
    LET a == SolanaAddressCriterion_validate_address_format(addresses)
        o == validate_literal(operator, InNotIn)
    IN  IF a.ok /\ o.ok
        THEN Ok([cls |-> "SolanaAddressCriterion", type |-> "solAddress",
                 addresses |-> a.val, operator |-> o.val])
        ELSE Raise(ValidationError)

\* a field annotated list[A | B | ...] over model classes, given instances:
\* every element must be an instance of one of the classes.  An instance is
\* taken as it is (pydantic's revalidate_instances is "never" by default).
validate_instance_list(v, classes) ==
    IF \A k \in 1..Len(v) : v[k].cls \in classes THEN Ok(v) ELSE Raise(ValidationError)

\* A value of type None | list[...] is a record: PyNone is None, PyList(l) the
\* list l; truthy(x) is bool(x), False for None and for the empty list
PyNone == [none |-> TRUE, list |-> <<>>]
PyList(l) == [none |-> FALSE, list |-> l]
truthy(x) == ~x.none /\ Len(x.list) > 0

\* params: None | list[EvmDataParameterCondition | EvmDataParameterConditionList]
EvmDataCondition(function, params) ==
    LET p == IF params.none THEN Ok(params.list)
             ELSE validate_instance_list(
                      params.list,
                      {"EvmDataParameterCondition", "EvmDataParameterConditionList"})
    IN  IF p.ok
        THEN Ok([cls |-> "EvmDataCondition", function |-> function, params |-> params])
        ELSE Raise(ValidationError)

EvmDataCriterion(abi, conditions) ==
    LET c == validate_instance_list(conditions, {"EvmDataCondition"})
    IN  IF c.ok
        THEN Ok([cls |-> "EvmDataCriterion", type |-> "evmData", abi |-> abi,
                 conditions |-> c.val])
        ELSE Raise(ValidationError)

SignEvmTypedDataTypes(types, primaryType) ==
    Ok([cls |-> "SignEvmTypedDataTypes", types |-> types, primaryType |-> primaryType])

SignEvmTypedDataFieldCriterion(types, conditions) ==
    LET c == validate_instance_list(
                 conditions, {"EvmTypedAddressCondition", "EvmTypedNumericalCondition",
                              "EvmTypedStringCondition"})
    IN  IF types.cls = "SignEvmTypedDataTypes" /\ c.ok
        THEN Ok([cls |-> "SignEvmTypedDataFieldCriterion", type |-> "evmTypedDataField",
                 types |-> types, conditions |-> c.val])
        ELSE Raise(ValidationError)

(***************************************************************************)
(* Constructors of the rule models of types.py.  kw is the record of the   *)
(* keyword arguments of the call; a required field that is missing, an     *)
(* action outside Action or a criterion of a class outside the annotated   *)
(* union makes the construction fail.                                      *)
(***************************************************************************)
\* the criteria field has a default, the empty list
rule_with_criteria_default_empty(cls, operation, classes, kw) ==
    IF "action" \notin DOMAIN kw
    THEN Raise(ValidationError)
    ELSE LET a == validate_literal(kw.action, Action)
             c == IF "criteria" \in DOMAIN kw
                  THEN validate_instance_list(kw.criteria, classes)
                  ELSE Ok(<<>>)
         IN  IF a.ok /\ c.ok
             THEN Ok([cls |-> cls, action |-> a.val, operation |-> operation,
                      criteria |-> c.val])
             ELSE Raise(ValidationError)

rule_with_criteria(cls, operation, classes, kw) ==
    IF "action" \notin DOMAIN kw \/ "criteria" \notin DOMAIN kw
    THEN Raise(ValidationError)
    ELSE LET a == validate_literal(kw.action, Action)
             c == validate_instance_list(kw.criteria, classes)
         IN  IF a.ok /\ c.ok
             THEN Ok([cls |-> cls, action |-> a.val, operation |-> operation,
                      criteria |-> c.val])
             ELSE Raise(ValidationError)

SendEvmTransactionRule(kw) ==
    rule_with_criteria("SendEvmTransactionRule", "sendEvmTransaction",
        {"EthValueCriterion", "EvmAddressCriterion", "EvmNetworkCriterion",
         "EvmDataCriterion"}, kw)

\* no criteria field: a criteria keyword is ignored (pydantic's extra="ignore")
SignEvmHashRule(kw) ==
    IF "action" \notin DOMAIN kw
    THEN Raise(ValidationError)
    ELSE LET a == validate_literal(kw.action, Action)
         IN  IF a.ok
             THEN Ok([cls |-> "SignEvmHashRule", action |-> a.val,
                      operation |-> "signEvmHash"])
             ELSE Raise(ValidationError)

SignEvmMessageRule(kw) ==
    rule_with_criteria("SignEvmMessageRule", "signEvmMessage",
        {"EvmMessageCriterion"}, kw)

SignEvmTypedDataRule(kw) ==
    rule_with_criteria("SignEvmTypedDataRule", "signEvmTypedData",
        {"SignEvmTypedDataFieldCriterion",
         "SignEvmTypedDataVerifyingContractCriterion"}, kw)

\* the criteria union of SendEvmTransactionRule was copied
SignEvmTransactionRule_with_network(kw) ==
    rule_with_criteria("SignEvmTransactionRule", "signEvmTransaction",
        {"EthValueCriterion", "EvmAddressCriterion", "EvmNetworkCriterion",
         "EvmDataCriterion"}, kw)

SignEvmTransactionRule(kw) ==
    rule_with_criteria("SignEvmTransactionRule", "signEvmTransaction",
        {"EthValueCriterion", "EvmAddressCriterion", "EvmDataCriterion"}, kw)

SignSolanaTransactionRule(kw) ==
    rule_with_criteria("SignSolanaTransactionRule", "signSolTransaction",
        {"SolanaAddressCriterion"}, kw)

RuleClasses ==
    {"SendEvmTransactionRule", "SignEvmTransactionRule", "SignEvmHashRule",
     "SignEvmMessageRule", "SignEvmTypedDataRule", "SignSolanaTransactionRule"}

\* Rule = SendEvmTransactionRule | ... : the constructor of the class named cls
NewRule(cls, kw) ==
    CASE cls = "SendEvmTransactionRule" -> SendEvmTransactionRule(kw)
      [] cls = "SignEvmTransactionRule" -> SignEvmTransactionRule(kw)
      [] cls = "SignEvmHashRule" -> SignEvmHashRule(kw)
      [] cls = "SignEvmMessageRule" -> SignEvmMessageRule(kw)
      [] cls = "SignEvmTypedDataRule" -> SignEvmTypedDataRule(kw)
      [] cls = "SignSolanaTransactionRule" -> SignSolanaTransactionRule(kw)

(***************************************************************************)
(* Values the caller passes: strings, operators, address lists.            *)
(***************************************************************************)
EvmGood == <<"0", "x">> \o Rep("a", 40)
EvmGoodMixed == <<"0", "x">> \o Rep("F", 20) \o Rep("9", 20)
\* 41 hex characters
Evm41 == <<"0", "x">> \o Rep("a", 41)
Evm39 == <<"0", "x">> \o Rep("a", 39)
EvmNoPrefix == Rep("a", 42)
EvmBadChar == <<"0", "x">> \o Rep("a", 39) \o <<"g">>
\* a well-formed address followed by a newline
EvmNewline == EvmGood \o <<LF>>

SolGood32 == Rep("A", 32)
SolGood44 == Rep("z", 44)
Sol31 == Rep("A", 31)
Sol45 == Rep("A", 45)
\* "0" is no Base58 character
SolBadChar == Rep("A", 31) \o <<"0">>
SolNewline == SolGood44 \o <<LF>>

EvmAddressLists ==
    {<<>>, <<EvmGood>>, <<EvmGood, EvmGoodMixed>>, Rep(EvmGood, 300), Rep(EvmGood, 301),
     <<Evm41>>, <<EvmGood, Evm41>>, <<Evm39>>, <<EvmNoPrefix>>, <<EvmBadChar>>,
     <<EvmNewline>>, Rep(EvmGood, 299) \o <<Evm41>>}

SolAddressLists ==
    {<<SolGood32>>, <<SolGood32, SolGood44>>, Rep(SolGood32, 300), Rep(SolGood32, 301),
     <<Sol31>>, <<Sol45>>, <<SolBadChar>>, <<SolGood32, SolBadChar>>, <<SolNewline>>}

AddressLists == EvmAddressLists \cup SolAddressLists

NumericStrings ==
    {<<"0">>, <<"1", "0", "0", "0">>, <<"1", "2", "a">>, <<>>, <<"-", "1">>,
     <<"1", ".", "5">>, <<" ", "1">>, <<SUP2>>, <<"1", SUP2>>}

Operators == {">", "<", ">=", "<=", "==", "!=", "in", "not in", "=", "IN"}

NetworkLists ==
    {<<>>, <<"base">>, <<"base-sepolia">>, <<"base", "base-sepolia">>, <<"mainnet">>,
     <<"base", "mainnet">>, <<"mainnet", "base">>, <<"Base">>}

Names == {<<"t", "o">>, <<"0">>}
Paths == {<<"t", "o">>}
ValueLists == {<<>>, <<<<"1">>, <<"2">>>>}

(***************************************************************************)
(* Instances the caller builds with the constructors above.                *)
(***************************************************************************)
\* KnownAbiType is a str enum; an explicit ABI is an AbiInner instance
KnownAbi(v) == [cls |-> "KnownAbiType", value |-> v]
ExplicitAbi(v) == [cls |-> "AbiInner", value |-> v]

V_ethValue == EthValueCriterion(<<"1", "0", "0", "0">>, ">").val
V_evmAddress == EvmAddressCriterion(<<EvmGood, EvmGoodMixed>>, "in").val
V_evmNetwork == EvmNetworkCriterion(<<"base", "base-sepolia">>, "not in").val
V_param == EvmDataParameterCondition(<<"t", "o">>, "==", <<"1">>).val
V_paramList == EvmDataParameterConditionList(<<"0">>, "in", <<<<"1">>, <<"2">>>>).val
V_condNone == EvmDataCondition(<<"f">>, PyNone).val
V_condEmpty == EvmDataCondition(<<"f">>, PyList(<<>>)).val
V_condParams == EvmDataCondition(<<"g">>, PyList(<<V_param, V_paramList>>)).val
V_evmData == EvmDataCriterion(ExplicitAbi("abi"), <<V_condNone, V_condParams>>).val
V_evmDataEmptyParams == EvmDataCriterion(KnownAbi("erc20"), <<V_condEmpty>>).val
V_evmMessage == EvmMessageCriterion(<<"^", "h", "i">>).val
V_typedAddress == EvmTypedAddressCondition(<<EvmGood>>, "in", <<"t", "o">>).val
V_typedNumerical == EvmTypedNumericalCondition(<<"1", "0", "0", "0">>, "<", <<"a">>).val
V_typedString == EvmTypedStringCondition(<<"^", "h", "i">>, <<"m">>).val
V_types ==
    SignEvmTypedDataTypes(
        [k \in {"Mail"} |-> <<[name |-> "to", type |-> "address"],
                              [name |-> "amount", type |-> "uint256"]>>],
        "Mail").val
V_typedField ==
    SignEvmTypedDataFieldCriterion(
        V_types, <<V_typedAddress, V_typedNumerical, V_typedString>>).val
V_verifyingContract == SignEvmTypedDataVerifyingContractCriterion(<<EvmGood>>, "in").val
V_solAddress == SolanaAddressCriterion(<<SolGood32, SolGood44>>, "in").val

\* one instance of each criterion class
CriterionInstances ==
    {V_ethValue, V_evmAddress, V_evmNetwork, V_evmData, V_evmMessage, V_typedField,
     V_verifyingContract, V_solAddress}

ActionNames == {"accept", "reject", "allow"}

\* keyword arguments of a rule constructor: action, criteria, or one of them
RuleKwargs ==
    {[action |-> a, criteria |-> c] :
        a \in ActionNames, c \in SeqsUpTo(CriterionInstances, MaxCriteria)}
    \cup {[action |-> a] : a \in ActionNames}
    \cup {[criteria |-> c] : c \in SeqsUpTo(CriterionInstances, 1)}

OperationTags ==
    {"sendEvmTransaction", "signEvmTransaction", "signEvmHash", "signEvmMessage",
     "signEvmTypedData", "signSolTransaction", "unknownOp"}

\* values of an attribute assignment x.f = v, by field
AttrValues(f) ==
    CASE f \in {"ethValue", "value"} -> NumericStrings
      [] f = "addresses" -> {<<>>, <<EvmGood>>, <<Evm41>>, <<SolGood32>>, Rep(EvmGood, 301)}
      [] f = "operator" -> Operators
      [] f = "networks" -> NetworkLists
      [] f = "operation" -> OperationTags
      [] f = "action" -> ActionNames
      [] f = "criteria" -> SeqsUpTo(CriterionInstances, 1)
      [] OTHER -> {}

(***************************************************************************)
(* The caller of types.py: it constructs instances and assigns to their    *)
(* attributes.                                                             *)
(***************************************************************************)
Threads == 1..NumThreads

\* a thread that has not called a transformer
IdleThread ==
    [pc |-> "idle", fn |-> None, arg |-> <<>>, idx |-> 0, rules |-> <<>>,
     returned |-> PyNone, raised |-> None, overlapped |-> FALSE]

Init ==
    /\ pc = "idle"
    /\ call = NoCall
    /\ obj = NoObject
    /\ outcome = None
    /\ request_rules = <<>>
    /\ openapi_rules = <<>>
    /\ idx = 0
    /\ rules = <<>>
    /\ returned = PyNone
    /\ raised = None
    /\ threads = [t \in Threads |-> IdleThread]

transformer_vars ==
    <<pc, request_rules, openapi_rules, idx, rules, returned, raised, threads>>

\* x = Cls(**args), the first thing the caller does: r is what the constructor did.  The caller holds the new
\* instance, or none if the constructor raised.
Construct(cls, args, r) ==
    /\ call' = [op |-> "new", cls |-> cls, args |-> args]
    /\ outcome' = IF r.ok THEN "ok" ELSE r.err
    /\ obj' = IF r.ok THEN r.val ELSE NoObject
    /\ UNCHANGED transformer_vars

New_EthValueCriterion ==
    /\ call.op = None
    /\ \E v \in NumericStrings, o \in Operators :
            Construct("EthValueCriterion", [ethValue |-> v, operator |-> o],
                      EthValueCriterion(v, o))

New_EvmAddressCriterion ==
    /\ call.op = None
    /\ \E a \in AddressLists, o \in Operators :
            Construct("EvmAddressCriterion", [addresses |-> a, operator |-> o],
                      EvmAddressCriterion(a, o))

New_EvmNetworkCriterion ==
    /\ call.op = None
    /\ \E n \in NetworkLists, o \in Operators :
            Construct("EvmNetworkCriterion", [networks |-> n, operator |-> o],
                      EvmNetworkCriterion(n, o))

New_EvmDataParameterCondition ==
    /\ call.op = None
    /\ \E n \in Names, o \in Operators, v \in NumericStrings :
            Construct("EvmDataParameterCondition",
                      [name |-> n, operator |-> o, value |-> v],
                      EvmDataParameterCondition(n, o, v))

New_EvmDataParameterConditionList ==
    /\ call.op = None
    /\ \E n \in Names, o \in Operators, v \in ValueLists :
            Construct("EvmDataParameterConditionList",
                      [name |-> n, operator |-> o, values |-> v],
                      EvmDataParameterConditionList(n, o, v))

New_EvmTypedAddressCondition ==
    /\ call.op = None
    /\ \E a \in AddressLists, o \in Operators, p \in Paths :
            Construct("EvmTypedAddressCondition",
                      [addresses |-> a, operator |-> o, path |-> p],
                      EvmTypedAddressCondition(a, o, p))

New_EvmTypedNumericalCondition ==
    /\ call.op = None
    /\ \E v \in NumericStrings, o \in Operators, p \in Paths :
            Construct("EvmTypedNumericalCondition",
                      [value |-> v, operator |-> o, path |-> p],
                      EvmTypedNumericalCondition(v, o, p))

New_SignEvmTypedDataVerifyingContractCriterion ==
    /\ call.op = None
    /\ \E a \in AddressLists, o \in Operators :
            Construct("SignEvmTypedDataVerifyingContractCriterion",
                      [addresses |-> a, operator |-> o],
                      SignEvmTypedDataVerifyingContractCriterion(a, o))

New_SolanaAddressCriterion ==
    /\ call.op = None
    /\ \E a \in AddressLists, o \in Operators :
            Construct("SolanaAddressCriterion", [addresses |-> a, operator |-> o],
                      SolanaAddressCriterion(a, o))

New_Rule ==
    /\ call.op = None
    /\ \E cls \in RuleClasses, kw \in RuleKwargs :
            Construct(cls, kw, NewRule(cls, kw))

\* x.f = v on a field of the instance.  The models of types.py set no
\* validate_assignment and are not frozen: the value is stored unvalidated.
SetAttr ==
    /\ obj.cls # None
    /\ \E f \in DOMAIN obj \ {"cls"} :
        \E v \in AttrValues(f) :
            /\ obj' = [obj EXCEPT ![f] = v]
            /\ call' = [op |-> "setattr", cls |-> obj.cls, args |-> [field |-> f]]
    /\ UNCHANGED outcome
    /\ UNCHANGED transformer_vars

TypesNext ==
    \/ New_EthValueCriterion
    \/ New_EvmAddressCriterion
    \/ New_EvmNetworkCriterion
    \/ New_EvmDataParameterCondition
    \/ New_EvmDataParameterConditionList
    \/ New_EvmTypedAddressCondition
    \/ New_EvmTypedNumericalCondition
    \/ New_SignEvmTypedDataVerifyingContractCriterion
    \/ New_SolanaAddressCriterion
    \/ New_Rule
    \/ SetAttr

SpecTypes == Init /\ [][TypesNext]_vars

(***************************************************************************)
(* The wire models (cdp.openapi_client.models) are generated data-transfer *)
(* objects: an instance holds the keyword arguments it was built from, and *)
(* a oneOf envelope holds the instance as actual_instance.                 *)
(***************************************************************************)
OneOf(cls, instance) == [cls |-> cls, actual_instance |-> instance]

\* [f(x) for x in xs]
Map(f(_), xs) == [k \in 1..Len(xs) |-> f(xs[k])]

(***************************************************************************)
(* request_transformer.py: openapi_criterion_mapping.                      *)
(***************************************************************************)
\* a parameter with a values field is emitted as the single-value variant
send_to_wire_param_single_variant(param) ==
    OneOf("EvmDataConditionParamsInner",
          IF "values" \in DOMAIN param
          THEN [cls |-> "openapi.EvmDataParameterCondition", name |-> param.name,
                operator |-> param.operator, value |-> param.values]
          ELSE [cls |-> "openapi.EvmDataParameterCondition", name |-> param.name,
                operator |-> param.operator, value |-> param.value])

\* EvmDataConditionParamsInner(actual_instance=... if hasattr(param, "values") else ...)
send_to_wire_param(param) ==
    OneOf("EvmDataConditionParamsInner",
          IF "values" \in DOMAIN param
          THEN [cls |-> "openapi.EvmDataParameterConditionList", name |-> param.name,
                operator |-> param.operator, values |-> param.values]
          ELSE [cls |-> "openapi.EvmDataParameterCondition", name |-> param.name,
                operator |-> param.operator, value |-> param.value])

\* params=[...] if cond.params is not None else None
send_to_wire_condition_is_not_none(cond) ==
    [cls |-> "openapi.EvmDataCondition", function |-> cond.function,
     params |-> IF ~cond.params.none
                THEN PyList(Map(send_to_wire_param, cond.params.list))
                ELSE PyNone]

\* OpenAPIEvmDataCondition(function=..., params=[...] if cond.params else None)
send_to_wire_condition(cond) ==
    [cls |-> "openapi.EvmDataCondition", function |-> cond.function,
     params |-> IF truthy(cond.params)
                THEN PyList(Map(send_to_wire_param, cond.params.list))
                ELSE PyNone]

\* KnownAbiType(c.abi) if isinstance(c.abi, str) else c.abi
send_evmData(c) ==
    OneOf("SendEvmTransactionCriteriaInner",
          [cls |-> "openapi.EvmDataCriterion", type |-> "evmData",
           abi |-> OneOf("EvmDataCriterionAbi",
                         IF c.abi.cls = "KnownAbiType" THEN KnownAbi(c.abi.value)
                         ELSE c.abi),
           conditions |-> Map(send_to_wire_condition, c.conditions)])

\* EvmDataConditionParamsInner(actual_instance=... if hasattr(param, "values") else ...)
sign_to_wire_param(param) ==
    OneOf("EvmDataConditionParamsInner",
          IF "values" \in DOMAIN param
          THEN [cls |-> "openapi.EvmDataParameterConditionList", name |-> param.name,
                operator |-> param.operator, values |-> param.values]
          ELSE [cls |-> "openapi.EvmDataParameterCondition", name |-> param.name,
                operator |-> param.operator, value |-> param.value])

\* OpenAPIEvmDataCondition(function=..., params=[...] if cond.params else None)
sign_to_wire_condition(cond) ==
    [cls |-> "openapi.EvmDataCondition", function |-> cond.function,
     params |-> IF truthy(cond.params)
                THEN PyList(Map(sign_to_wire_param, cond.params.list))
                ELSE PyNone]

\* KnownAbiType(c.abi) if isinstance(c.abi, str) else c.abi
sign_evmData(c) ==
    OneOf("SignEvmTransactionCriteriaInner",
          [cls |-> "openapi.EvmDataCriterion", type |-> "evmData",
           abi |-> OneOf("EvmDataCriterionAbi",
                         IF c.abi.cls = "KnownAbiType" THEN KnownAbi(c.abi.value)
                         ELSE c.abi),
           conditions |-> Map(sign_to_wire_condition, c.conditions)])

\* the type tag is written in lower case
send_ethValue_lowercase_tag(c) ==
    OneOf("SendEvmTransactionCriteriaInner",
          [cls |-> "openapi.EthValueCriterion", eth_value |-> c.ethValue,
           operator |-> c.operator, type |-> "ethvalue"])

send_ethValue(c) ==
    OneOf("SendEvmTransactionCriteriaInner",
          [cls |-> "openapi.EthValueCriterion", eth_value |-> c.ethValue,
           operator |-> c.operator, type |-> "ethValue"])

send_evmAddress(c) ==
    OneOf("SendEvmTransactionCriteriaInner",
          [cls |-> "openapi.EvmAddressCriterion", addresses |-> c.addresses,
           operator |-> c.operator, type |-> "evmAddress"])

send_evmNetwork(c) ==
    OneOf("SendEvmTransactionCriteriaInner",
          [cls |-> "openapi.EvmNetworkCriterion", networks |-> c.networks,
           operator |-> c.operator, type |-> "evmNetwork"])

\* the operator is not taken from the criterion
sign_ethValue_fixed_operator(c) ==
    OneOf("SignEvmTransactionCriteriaInner",
          [cls |-> "openapi.EthValueCriterion", eth_value |-> c.ethValue,
           operator |-> "==", type |-> "ethValue"])

sign_ethValue(c) ==
    OneOf("SignEvmTransactionCriteriaInner",
          [cls |-> "openapi.EthValueCriterion", eth_value |-> c.ethValue,
           operator |-> c.operator, type |-> "ethValue"])

sign_evmAddress(c) ==
    OneOf("SignEvmTransactionCriteriaInner",
          [cls |-> "openapi.EvmAddressCriterion", addresses |-> c.addresses,
           operator |-> c.operator, type |-> "evmAddress"])

message_evmMessage(c) ==
    OneOf("SignEvmMessageCriteriaInner",
          [cls |-> "openapi.EvmMessageCriterion", match |-> c.match,
           type |-> "evmMessage"])

\* address if hasattr(cond, "addresses") else numerical if hasattr(cond, "value")
\* else string
\* the numerical branch passes value and path in each other's place
to_wire_typed_condition_swapped(cond) ==
    OneOf("SignEvmTypedDataFieldCriterionConditionsInner",
          IF "addresses" \in DOMAIN cond
          THEN [cls |-> "openapi.EvmTypedAddressCondition", addresses |-> cond.addresses,
                operator |-> cond.operator, path |-> cond.path]
          ELSE IF "value" \in DOMAIN cond
          THEN [cls |-> "openapi.EvmTypedNumericalCondition", value |-> cond.path,
                operator |-> cond.operator, path |-> cond.value]
          ELSE [cls |-> "openapi.EvmTypedStringCondition", match |-> cond.match,
                path |-> cond.path])

\* hasattr(cond, "value") is tested before hasattr(cond, "addresses")
to_wire_typed_condition_value_first(cond) ==
    OneOf("SignEvmTypedDataFieldCriterionConditionsInner",
          IF "value" \in DOMAIN cond
          THEN [cls |-> "openapi.EvmTypedNumericalCondition", value |-> cond.value,
                operator |-> cond.operator, path |-> cond.path]
          ELSE IF "addresses" \in DOMAIN cond
          THEN [cls |-> "openapi.EvmTypedAddressCondition", addresses |-> cond.addresses,
                operator |-> cond.operator, path |-> cond.path]
          ELSE [cls |-> "openapi.EvmTypedStringCondition", match |-> cond.match,
                path |-> cond.path])

to_wire_typed_condition(cond) ==
    OneOf("SignEvmTypedDataFieldCriterionConditionsInner",
          IF "addresses" \in DOMAIN cond
          THEN [cls |-> "openapi.EvmTypedAddressCondition", addresses |-> cond.addresses,
                operator |-> cond.operator, path |-> cond.path]
          ELSE IF "value" \in DOMAIN cond
          THEN [cls |-> "openapi.EvmTypedNumericalCondition", value |-> cond.value,
                operator |-> cond.operator, path |-> cond.path]
          ELSE [cls |-> "openapi.EvmTypedStringCondition", match |-> cond.match,
                path |-> cond.path])

typed_evmTypedDataField(c) ==
    OneOf("SignEvmTypedDataCriteriaInner",
          [cls |-> "openapi.SignEvmTypedDataFieldCriterion", type |-> "evmTypedDataField",
           types |-> [cls |-> "openapi.SignEvmTypedDataFieldCriterionTypes",
                      types |-> c.types.types, primary_type |-> c.types.primaryType],
           conditions |-> Map(to_wire_typed_condition, c.conditions)])

typed_evmTypedDataVerifyingContract(c) ==
    OneOf("SignEvmTypedDataCriteriaInner",
          [cls |-> "openapi.SignEvmTypedDataVerifyingContractCriterion",
           type |-> "evmTypedDataVerifyingContract", addresses |-> c.addresses,
           operator |-> c.operator])

sol_solAddress(c) ==
    OneOf("SignSolTransactionCriteriaInner",
          [cls |-> "openapi.SolAddressCriterion", addresses |-> c.addresses,
           operator |-> c.operator, type |-> "solAddress"])

\* the keys of openapi_criterion_mapping
openapi_operations ==
    {"sendEvmTransaction", "signEvmTransaction", "signEvmHash", "signEvmMessage",
     "signEvmTypedData", "signSolTransaction"}

\* the entry of sendEvmTransaction lost its evmNetwork key
openapi_criterion_types_without_network(operation) ==
    CASE operation = "sendEvmTransaction" -> {"ethValue", "evmAddress", "evmData"}
      [] operation = "signEvmTransaction" -> {"ethValue", "evmAddress", "evmData"}
      [] operation = "signEvmHash" -> {}
      [] operation = "signEvmMessage" -> {"evmMessage"}
      [] operation = "signEvmTypedData" ->
             {"evmTypedDataField", "evmTypedDataVerifyingContract"}
      [] operation = "signSolTransaction" -> {"solAddress"}

\* the keys of openapi_criterion_mapping[operation]
openapi_criterion_types(operation) ==
    CASE operation = "sendEvmTransaction" ->
             {"ethValue", "evmAddress", "evmNetwork", "evmData"}
      [] operation = "signEvmTransaction" -> {"ethValue", "evmAddress", "evmData"}
      [] operation = "signEvmHash" -> {}
      [] operation = "signEvmMessage" -> {"evmMessage"}
      [] operation = "signEvmTypedData" ->
             {"evmTypedDataField", "evmTypedDataVerifyingContract"}
      [] operation = "signSolTransaction" -> {"solAddress"}

\* openapi_criterion_mapping[operation][type](c)
openapi_criterion_mapping(operation, type, c) ==
    CASE operation = "sendEvmTransaction" /\ type = "ethValue" -> send_ethValue(c)
      [] operation = "sendEvmTransaction" /\ type = "evmAddress" -> send_evmAddress(c)
      [] operation = "sendEvmTransaction" /\ type = "evmNetwork" -> send_evmNetwork(c)
      [] operation = "sendEvmTransaction" /\ type = "evmData" -> send_evmData(c)
      [] operation = "signEvmTransaction" /\ type = "ethValue" -> sign_ethValue(c)
      [] operation = "signEvmTransaction" /\ type = "evmAddress" -> sign_evmAddress(c)
      [] operation = "signEvmTransaction" /\ type = "evmData" -> sign_evmData(c)
      [] operation = "signEvmMessage" /\ type = "evmMessage" -> message_evmMessage(c)
      [] operation = "signEvmTypedData" /\ type = "evmTypedDataField" ->
             typed_evmTypedDataField(c)
      [] operation = "signEvmTypedData" /\ type = "evmTypedDataVerifyingContract" ->
             typed_evmTypedDataVerifyingContract(c)
      [] operation = "signSolTransaction" /\ type = "solAddress" -> sol_solAddress(c)

\* five keys: signEvmHash has no entry
openapi_rule_operations_without_hash ==
    {"sendEvmTransaction", "signEvmTransaction", "signEvmMessage", "signEvmTypedData",
     "signSolTransaction"}

\* the keys of openapi_rule_mapping
openapi_rule_operations ==
    {"sendEvmTransaction", "signEvmTransaction", "signEvmHash", "signEvmMessage",
     "signEvmTypedData", "signSolTransaction"}

\* openapi_rule_mapping[operation]
openapi_rule_mapping(operation) ==
    CASE operation = "sendEvmTransaction" -> "openapi.SendEvmTransactionRule"
      [] operation = "signEvmTransaction" -> "openapi.SignEvmTransactionRule"
      [] operation = "signEvmHash" -> "openapi.SignEvmHashRule"
      [] operation = "signEvmMessage" -> "openapi.SignEvmMessageRule"
      [] operation = "signEvmTypedData" -> "openapi.SignEvmTypedDataRule"
      [] operation = "signSolTransaction" -> "openapi.SignSolTransactionRule"

UnknownOperation == "UnknownOperation"
UnknownCriterionType == "UnknownCriterionType"
\* a dict lookup with a key the dict does not hold
KeyError == "KeyError"

\* each wire criterion is put in front of the list built so far
RECURSIVE request_criteria_prepend(_, _, _, _)
request_criteria_prepend(operation, cs, k, criteria) ==
    IF k > Len(cs) THEN Ok(criteria)
    ELSE IF cs[k].type \notin openapi_criterion_types(operation)
    THEN Raise(UnknownCriterionType)
    ELSE request_criteria_prepend(operation, cs, k + 1,
             <<openapi_criterion_mapping(operation, cs[k].type, cs[k])>> \o criteria)

\* the inner loop of map_request_rules_to_openapi_format, from criterion k on
RECURSIVE request_criteria(_, _, _, _)
request_criteria(operation, cs, k, criteria) ==
    IF k > Len(cs) THEN Ok(criteria)
    ELSE IF cs[k].type \notin openapi_criterion_types(operation)
    THEN Raise(UnknownCriterionType)
    ELSE request_criteria(operation, cs, k + 1,
             Append(criteria, openapi_criterion_mapping(operation, cs[k].type, cs[k])))

\* the unknown operation is reported with the message of the criterion check
request_rule_wrong_error(rule) ==
    IF rule.operation \notin openapi_operations
    THEN Raise(UnknownCriterionType)
    ELSE LET rule_cls == openapi_rule_mapping(rule.operation)
         IN  IF "criteria" \notin DOMAIN rule
             THEN Ok(OneOf("Rule", [cls |-> rule_cls, action |-> rule.action,
                                    operation |-> rule.operation]))
             ELSE LET built == request_criteria(rule.operation, rule.criteria, 1, <<>>)
                  IN  IF built.ok
                      THEN Ok(OneOf("Rule", [cls |-> rule_cls, action |-> rule.action,
                                             operation |-> rule.operation,
                                             criteria |-> built.val]))
                      ELSE built

\* a rule without criteria is emitted with an empty criteria list
request_rule_always_criteria(rule) ==
    IF rule.operation \notin openapi_operations
    THEN Raise(UnknownOperation)
    ELSE LET rule_cls == openapi_rule_mapping(rule.operation)
         IN  IF "criteria" \notin DOMAIN rule
             THEN Ok(OneOf("Rule", [cls |-> rule_cls, action |-> rule.action,
                                    operation |-> rule.operation, criteria |-> <<>>]))
             ELSE LET built == request_criteria(rule.operation, rule.criteria, 1, <<>>)
                  IN  IF built.ok
                      THEN Ok(OneOf("Rule", [cls |-> rule_cls, action |-> rule.action,
                                             operation |-> rule.operation,
                                             criteria |-> built.val]))
                      ELSE built

\* the criterion types are checked before the operation
request_rule_criteria_first(rule) ==
    LET known == rule.operation \in openapi_operations
        types == IF known THEN openapi_criterion_types(rule.operation) ELSE {}
    IN  IF /\ "criteria" \in DOMAIN rule
           /\ \E j \in 1..Len(rule.criteria) : rule.criteria[j].type \notin types
        THEN Raise(UnknownCriterionType)
        ELSE IF ~known
        THEN Raise(UnknownOperation)
        ELSE LET rule_cls == openapi_rule_mapping(rule.operation)
             IN  IF "criteria" \notin DOMAIN rule
                 THEN Ok(OneOf("Rule", [cls |-> rule_cls, action |-> rule.action,
                                        operation |-> rule.operation]))
                 ELSE Ok(OneOf("Rule",
                               [cls |-> rule_cls, action |-> rule.action,
                                operation |-> rule.operation,
                                criteria |->
                                    request_criteria(rule.operation, rule.criteria,
                                                     1, <<>>).val]))

\* one iteration of the loop of map_request_rules_to_openapi_format: the wire
\* rule appended to rules, or the exception raised
request_rule(rule) ==
    IF rule.operation \notin openapi_operations
    THEN Raise(UnknownOperation)
    ELSE IF rule.operation \notin openapi_rule_operations
    THEN Raise(KeyError)
    ELSE LET rule_cls == openapi_rule_mapping(rule.operation)
         IN  IF "criteria" \notin DOMAIN rule
             THEN Ok(OneOf("Rule", [cls |-> rule_cls, action |-> rule.action,
                                    operation |-> rule.operation]))
             ELSE LET built == request_criteria(rule.operation, rule.criteria, 1, <<>>)
                  IN  IF built.ok
                      THEN Ok(OneOf("Rule", [cls |-> rule_cls, action |-> rule.action,
                                             operation |-> rule.operation,
                                             criteria |-> built.val]))
                      ELSE built

(***************************************************************************)
(* response_transformer.py: response_criterion_mapping.  Each constructor  *)
(* is a model of types.py and validates what the wire object holds.        *)
(***************************************************************************)
AllOk(rs) == \A k \in 1..Len(rs) : rs[k].ok
Vals(rs) == [k \in 1..Len(rs) |-> rs[k].val]

\* list variant if hasattr(param.actual_instance, "values") else single value
send_from_wire_param(param) ==
    IF "values" \in DOMAIN param.actual_instance
    THEN EvmDataParameterConditionList(param.actual_instance.name,
             param.actual_instance.operator, param.actual_instance.values)
    ELSE EvmDataParameterCondition(param.actual_instance.name,
             param.actual_instance.operator, param.actual_instance.value)

\* EvmDataConditionModel(function=..., params=([...] if cond.params else None))
send_from_wire_condition(cond) ==
    IF truthy(cond.params)
    THEN LET ps == Map(send_from_wire_param, cond.params.list)
         IN  IF AllOk(ps) THEN EvmDataCondition(cond.function, PyList(Vals(ps)))
             ELSE Raise(ValidationError)
    ELSE EvmDataCondition(cond.function, PyNone)

send_response_evmData(c) ==
    LET cs == Map(send_from_wire_condition, c.conditions)
    IN  IF AllOk(cs) THEN EvmDataCriterion(c.abi.actual_instance, Vals(cs))
        ELSE Raise(ValidationError)

send_response_ethValue(c) == EthValueCriterion(c.eth_value, c.operator)

\* the criterion is built without running the validators (model_construct)
send_response_evmAddress_unvalidated(c) ==
    Ok([cls |-> "EvmAddressCriterion", type |-> "evmAddress",
        addresses |-> c.addresses, operator |-> c.operator])

send_response_evmAddress(c) == EvmAddressCriterion(c.addresses, c.operator)

send_response_evmNetwork(c) == EvmNetworkCriterion(c.networks, c.operator)

\* list variant if hasattr(param.actual_instance, "values") else single value
sign_from_wire_param(param) ==
    IF "values" \in DOMAIN param.actual_instance
    THEN EvmDataParameterConditionList(param.actual_instance.name,
             param.actual_instance.operator, param.actual_instance.values)
    ELSE EvmDataParameterCondition(param.actual_instance.name,
             param.actual_instance.operator, param.actual_instance.value)

\* EvmDataConditionModel(function=..., params=([...] if cond.params else None))
sign_from_wire_condition(cond) ==
    IF truthy(cond.params)
    THEN LET ps == Map(sign_from_wire_param, cond.params.list)
         IN  IF AllOk(ps) THEN EvmDataCondition(cond.function, PyList(Vals(ps)))
             ELSE Raise(ValidationError)
    ELSE EvmDataCondition(cond.function, PyNone)

sign_response_evmData(c) ==
    LET cs == Map(sign_from_wire_condition, c.conditions)
    IN  IF AllOk(cs) THEN EvmDataCriterion(c.abi.actual_instance, Vals(cs))
        ELSE Raise(ValidationError)

sign_response_ethValue(c) == EthValueCriterion(c.eth_value, c.operator)

sign_response_evmAddress(c) == EvmAddressCriterion(c.addresses, c.operator)

message_response_evmMessage(c) == EvmMessageCriterion(c.match)

\* address if hasattr(cond.actual_instance, "addresses") else numerical if
\* hasattr(cond.actual_instance, "value") else string
from_wire_typed_condition(cond) ==
    IF "addresses" \in DOMAIN cond.actual_instance
    THEN EvmTypedAddressCondition(cond.actual_instance.addresses,
             cond.actual_instance.operator, cond.actual_instance.path)
    ELSE IF "value" \in DOMAIN cond.actual_instance
    THEN EvmTypedNumericalCondition(cond.actual_instance.value,
             cond.actual_instance.operator, cond.actual_instance.path)
    ELSE EvmTypedStringCondition(cond.actual_instance.match, cond.actual_instance.path)

\* {key: [{"name": item.name, "type": item.type} for item in value]
\*  for key, value in c.types.types.items()}
from_wire_types(types) ==
    [key \in DOMAIN types |->
        [k \in 1..Len(types[key]) |->
            [name |-> types[key][k].name, type |-> types[key][k].type]]]

typed_response_evmTypedDataField(c) ==
    LET ts == SignEvmTypedDataTypes(from_wire_types(c.types.types), c.types.primary_type)
        cs == Map(from_wire_typed_condition, c.conditions)
    IN  IF ts.ok /\ AllOk(cs) THEN SignEvmTypedDataFieldCriterion(ts.val, Vals(cs))
        ELSE Raise(ValidationError)

typed_response_evmTypedDataVerifyingContract(c) ==
    SignEvmTypedDataVerifyingContractCriterion(c.addresses, c.operator)

sol_response_solAddress(c) == SolanaAddressCriterion(c.addresses, c.operator)

\* the keys of response_criterion_mapping
response_operations ==
    {"sendEvmTransaction", "signEvmTransaction", "signEvmHash", "signEvmMessage",
     "signEvmTypedData", "signSolTransaction"}

\* the entry of sendEvmTransaction has no evmNetwork key
response_criterion_types_without_network(operation) ==
    CASE operation = "sendEvmTransaction" -> {"ethValue", "evmAddress", "evmData"}
      [] operation = "signEvmTransaction" -> {"ethValue", "evmAddress", "evmData"}
      [] operation = "signEvmHash" -> {}
      [] operation = "signEvmMessage" -> {"evmMessage"}
      [] operation = "signEvmTypedData" ->
             {"evmTypedDataField", "evmTypedDataVerifyingContract"}
      [] operation = "signSolTransaction" -> {"solAddress"}

\* the keys of response_criterion_mapping[operation]
response_criterion_types(operation) ==
    CASE operation = "sendEvmTransaction" ->
             {"ethValue", "evmAddress", "evmNetwork", "evmData"}
      [] operation = "signEvmTransaction" -> {"ethValue", "evmAddress", "evmData"}
      [] operation = "signEvmHash" -> {}
      [] operation = "signEvmMessage" -> {"evmMessage"}
      [] operation = "signEvmTypedData" ->
             {"evmTypedDataField", "evmTypedDataVerifyingContract"}
      [] operation = "signSolTransaction" -> {"solAddress"}

\* response_criterion_mapping[operation][type](c)
response_criterion_mapping(operation, type, c) ==
    CASE operation = "sendEvmTransaction" /\ type = "ethValue" -> send_response_ethValue(c)
      [] operation = "sendEvmTransaction" /\ type = "evmAddress" ->
             send_response_evmAddress(c)
      [] operation = "sendEvmTransaction" /\ type = "evmNetwork" ->
             send_response_evmNetwork(c)
      [] operation = "sendEvmTransaction" /\ type = "evmData" -> send_response_evmData(c)
      [] operation = "signEvmTransaction" /\ type = "ethValue" -> sign_response_ethValue(c)
      [] operation = "signEvmTransaction" /\ type = "evmAddress" ->
             sign_response_evmAddress(c)
      [] operation = "signEvmTransaction" /\ type = "evmData" -> sign_response_evmData(c)
      [] operation = "signEvmMessage" /\ type = "evmMessage" ->
             message_response_evmMessage(c)
      [] operation = "signEvmTypedData" /\ type = "evmTypedDataField" ->
             typed_response_evmTypedDataField(c)
      [] operation = "signEvmTypedData" /\ type = "evmTypedDataVerifyingContract" ->
             typed_response_evmTypedDataVerifyingContract(c)
      [] operation = "signSolTransaction" /\ type = "solAddress" ->
             sol_response_solAddress(c)

\* the keys of response_rule_mapping
response_rule_operations ==
    {"sendEvmTransaction", "signEvmTransaction", "signEvmHash", "signEvmMessage",
     "signEvmTypedData", "signSolTransaction"}

\* response_rule_mapping[operation]
response_rule_mapping(operation) ==
    CASE operation = "sendEvmTransaction" -> "SendEvmTransactionRule"
      [] operation = "signEvmTransaction" -> "SignEvmTransactionRule"
      [] operation = "signEvmHash" -> "SignEvmHashRule"
      [] operation = "signEvmMessage" -> "SignEvmMessageRule"
      [] operation = "signEvmTypedData" -> "SignEvmTypedDataRule"
      [] operation = "signSolTransaction" -> "SignSolanaTransactionRule"

\* the inner loop of map_openapi_rules_to_response_format, from criterion k on
RECURSIVE response_criteria(_, _, _, _)
response_criteria(operation, cs, k, criteria) ==
    IF k > Len(cs) THEN Ok(criteria)
    ELSE LET criterion == cs[k].actual_instance
         IN  IF criterion.type \notin response_criterion_types(operation)
             THEN Raise(UnknownCriterionType)
             ELSE LET built == response_criterion_mapping(operation, criterion.type,
                                                          criterion)
                  IN  IF built.ok
                      THEN response_criteria(operation, cs, k + 1,
                                             Append(criteria, built.val))
                      ELSE built

\* one iteration of the loop of map_openapi_rules_to_response_format: the
\* user-facing rule appended to response_rules, or the exception raised
response_rule(rule) ==
    LET instance == rule.actual_instance
        operation == instance.operation
    IN  IF operation \notin response_operations
        THEN Raise(UnknownOperation)
        ELSE IF operation \notin response_rule_operations
        THEN Raise(KeyError)
        ELSE LET rule_class == response_rule_mapping(operation)
             IN  IF "criteria" \notin DOMAIN instance
                 THEN NewRule(rule_class, [action |-> instance.action])
                 ELSE LET built == response_criteria(operation, instance.criteria, 1, <<>>)
                      IN  IF built.ok
                          THEN NewRule(rule_class, [action |-> instance.action,
                                                    criteria |-> built.val])
                          ELSE built

(***************************************************************************)
(* The two transformers as functions of their argument: what a call that   *)
(* runs from entry to exit returns or raises.                              *)
(***************************************************************************)
RECURSIVE request_rules_from(_, _, _)
request_rules_from(request_rules_, k, rules_) ==
    IF k > Len(request_rules_) THEN Ok(rules_)
    ELSE LET r == request_rule(request_rules_[k])
         IN  IF r.ok THEN request_rules_from(request_rules_, k + 1, Append(rules_, r.val))
             ELSE r

map_request_rules_to_openapi_format(request_rules_) ==
    request_rules_from(request_rules_, 1, <<>>)

RECURSIVE response_rules_from(_, _, _)
response_rules_from(openapi_rules_, k, response_rules) ==
    IF k > Len(openapi_rules_) THEN Ok(response_rules)
    ELSE LET r == response_rule(openapi_rules_[k])
         IN  IF r.ok
             THEN response_rules_from(openapi_rules_, k + 1, Append(response_rules, r.val))
             ELSE r

map_openapi_rules_to_response_format(openapi_rules_) ==
    response_rules_from(openapi_rules_, 1, <<>>)

(***************************************************************************)
(* The caller of the transformers.  It calls                               *)
(* map_request_rules_to_openapi_format on rules it built, and may hand the *)
(* result to map_openapi_rules_to_response_format (a round trip); or it    *)
(* calls map_openapi_rules_to_response_format on rules the service sent.   *)
(* Each loop iteration is one step; idx is the position of the loop.       *)
(***************************************************************************)
\* every criterion instance a rule of a call holds
Criteria == CriterionInstances \cup {V_evmDataEmptyParams}

\* rules as their constructors return them
ValidRules ==
    {NewRule(cls, [action |-> a, criteria |-> c]).val :
        <<cls, a, c>> \in
            {x \in RuleClasses \X Action \X SeqsUpTo(Criteria, MaxCriteria) :
                NewRule(x[1], [action |-> x[2], criteria |-> x[3]]).ok}}

R_send == SendEvmTransactionRule([action |-> "accept",
                                  criteria |-> <<V_ethValue, V_evmData>>]).val
R_sign == SignEvmTransactionRule([action |-> "reject", criteria |-> <<V_evmAddress>>]).val
R_hash == SignEvmHashRule([action |-> "reject"]).val
R_typed == SignEvmTypedDataRule([action |-> "accept", criteria |-> <<V_typedField>>]).val
\* rule.operation = "unknownOp" on a constructed rule (see SetAttr)
R_unknownOp == [R_send EXCEPT !.operation = "unknownOp"]
\* rule.criteria = [EvmNetworkCriterion(...)] on a constructed rule (see SetAttr)
R_illegal == [R_sign EXCEPT !.criteria = <<V_evmNetwork>>]

\* constructed rules after rule.operation = op and rule.criteria = c
AssignedRules ==
    {[R_send EXCEPT !.operation = op, !.criteria = c] :
        op \in OperationTags, c \in SeqsUpTo(Criteria, MaxCriteria)}
    \cup {[R_hash EXCEPT !.operation = op] : op \in OperationTags}

CoreRules == {R_send, R_hash, R_typed, R_unknownOp, R_illegal}

\* signEvmTypedData rules with one evmTypedDataField criterion over every
\* sequence of conditions of the three kinds
TypedConditions == {V_typedAddress, V_typedNumerical, V_typedString}

TypedFieldRules ==
    {SignEvmTypedDataRule(
         [action |-> "accept",
          criteria |-> <<SignEvmTypedDataFieldCriterion(V_types, cs).val>>]).val :
        cs \in SeqsUpTo(TypedConditions, MaxConditions)}

\* instances of subclasses of the condition models that declare further
\* fields: an address condition that also has value and match, one that also
\* has value, one that also has match, and a numerical one that also has match
SubclassConditions ==
    {[value |-> <<"7">>, match |-> <<"^", "h", "i">>] @@ V_typedAddress,
     [value |-> <<"7">>] @@ V_typedAddress,
     [match |-> <<"^", "h", "i">>] @@ V_typedAddress,
     [match |-> <<"^", "h", "i">>] @@ V_typedNumerical}

\* signEvmTypedData rules whose evmTypedDataField criterion holds such
\* conditions, alone or after a plain string condition
SubclassConditionRules ==
    {SignEvmTypedDataRule(
         [action |-> "reject",
          criteria |-> <<SignEvmTypedDataFieldCriterion(V_types, cs).val>>]).val :
        cs \in {<<d>> : d \in SubclassConditions}
               \cup {<<V_typedString, d>> : d \in SubclassConditions}}

RequestRuleLists ==
    {<<r>> : r \in ValidRules \cup AssignedRules \cup TypedFieldRules
                   \cup SubclassConditionRules}
    \cup SeqsUpTo(CoreRules, MaxRules)

\* wire rules the service sends: the wire form of rules that were sent to it,
W_send == request_rule(R_send).val
W_hash == request_rule(R_hash).val
W_typed == request_rule(R_typed).val
\* a rule of an operation this client has no entry for,
W_unknownOp ==
    OneOf("Rule", [W_hash.actual_instance EXCEPT !.operation = "unknownOp"])
\* a criterion of the wire schema this client has no entry for,
W_mintAddress ==
    OneOf("Rule",
          [cls |-> "openapi.SignSolTransactionRule", action |-> "accept",
           operation |-> "signSolTransaction",
           criteria |-> <<OneOf("SignSolTransactionCriteriaInner",
                                [cls |-> "openapi.MintAddressCriterion",
                                 type |-> "mintAddress",
                                 addresses |-> <<SolGood44>>, operator |-> "in"])>>])
\* and a network the user-facing EvmNetworkCriterion does not list
W_newNetwork ==
    OneOf("Rule",
          [cls |-> "openapi.SendEvmTransactionRule", action |-> "accept",
           operation |-> "sendEvmTransaction",
           criteria |-> <<OneOf("SendEvmTransactionCriteriaInner",
                                [cls |-> "openapi.EvmNetworkCriterion",
                                 type |-> "evmNetwork",
                                 networks |-> <<"base", "ethereum">>,
                                 operator |-> "in"])>>])

\* an evmData condition the service sent with an empty params list
W_emptyParams ==
    OneOf("Rule",
          [cls |-> "openapi.SignEvmTransactionRule", action |-> "reject",
           operation |-> "signEvmTransaction",
           criteria |-> <<OneOf("SignEvmTransactionCriteriaInner",
                                [cls |-> "openapi.EvmDataCriterion", type |-> "evmData",
                                 abi |-> OneOf("EvmDataCriterionAbi", KnownAbi("erc20")),
                                 conditions |->
                                     <<[cls |-> "openapi.EvmDataCondition",
                                        function |-> <<"f">>,
                                        params |-> PyList(<<>>)]>>])>>])

\* a rule whose first criterion holds a network the user-facing model does
\* not list and whose second criterion is of a type without an entry
W_twoFailures ==
    OneOf("Rule",
          [W_newNetwork.actual_instance EXCEPT
              !.criteria = W_newNetwork.actual_instance.criteria
                               \o W_mintAddress.actual_instance.criteria])

\* a rule of an operation without an entry whose criterion has none either
W_unknownOpCriteria ==
    OneOf("Rule", [W_mintAddress.actual_instance EXCEPT !.operation = "unknownOp"])

CoreWireRules ==
    {W_send, W_hash, W_typed, W_unknownOp, W_mintAddress, W_newNetwork, W_emptyParams,
     W_twoFailures, W_unknownOpCriteria}

\* a wire rule of the operation with the one criterion c
WireRuleOf(rule_cls, operation, inner_cls, a, c) ==
    OneOf("Rule", [cls |-> rule_cls, action |-> a, operation |-> operation,
                   criteria |-> <<OneOf(inner_cls, c)>>])

\* wire rules with content of the service's choosing: addresses, numeric
\* strings, operators and actions the user-facing models accept or refuse
ContentWireRules ==
    {WireRuleOf("openapi.SendEvmTransactionRule", "sendEvmTransaction",
                "SendEvmTransactionCriteriaInner", "accept",
                [cls |-> "openapi.EvmAddressCriterion", addresses |-> as,
                 operator |-> "in", type |-> "evmAddress"]) : as \in EvmAddressLists}
    \cup
    {WireRuleOf("openapi.SignEvmTransactionRule", "signEvmTransaction",
                "SignEvmTransactionCriteriaInner", "reject",
                [cls |-> "openapi.EthValueCriterion", eth_value |-> v,
                 operator |-> op, type |-> "ethValue"]) :
        v \in NumericStrings, op \in {">=", "in"}}
    \cup
    {WireRuleOf("openapi.SignSolTransactionRule", "signSolTransaction",
                "SignSolTransactionCriteriaInner", a,
                [cls |-> "openapi.SolAddressCriterion", addresses |-> as,
                 operator |-> "not in", type |-> "solAddress"]) :
        as \in SolAddressLists, a \in {"accept", "allow"}}
    \cup
    {WireRuleOf("openapi.SignEvmTypedDataRule", "signEvmTypedData",
                "SignEvmTypedDataCriteriaInner", "accept",
                [W_typed.actual_instance.criteria[1].actual_instance EXCEPT
                    !.conditions =
                        <<OneOf("SignEvmTypedDataFieldCriterionConditionsInner",
                                [cls |-> "openapi.EvmTypedNumericalCondition",
                                 value |-> v, operator |-> "<=", path |-> <<"a">>]),
                          OneOf("SignEvmTypedDataFieldCriterionConditionsInner",
                                [cls |-> "openapi.EvmTypedAddressCondition",
                                 addresses |-> as, operator |-> "in",
                                 path |-> <<"t", "o">>])>>]) :
        v \in {<<"1", "0">>, <<"1", ".", "5">>, <<SUP2>>},
        as \in {<<EvmGood>>, <<Evm41>>, <<EvmNewline>>, Rep(EvmGood, 301)}}

\* wire conditions that expose more than one of addresses, value and match
WireSubclassConditions ==
    {[value |-> <<"7">>, match |-> <<"^", "h", "i">>]
         @@ to_wire_typed_condition(V_typedAddress).actual_instance,
     [value |-> <<"7">>] @@ to_wire_typed_condition(V_typedAddress).actual_instance,
     [match |-> <<"^", "h", "i">>]
         @@ to_wire_typed_condition(V_typedAddress).actual_instance,
     [match |-> <<"^", "h", "i">>]
         @@ to_wire_typed_condition(V_typedNumerical).actual_instance}

\* wire signEvmTypedData rules whose evmTypedDataField criterion holds them
WireSubclassConditionRules ==
    {WireRuleOf("openapi.SignEvmTypedDataRule", "signEvmTypedData",
                "SignEvmTypedDataCriteriaInner", "reject",
                [W_typed.actual_instance.criteria[1].actual_instance EXCEPT
                    !.conditions =
                        <<to_wire_typed_condition(V_typedString),
                          OneOf("SignEvmTypedDataFieldCriterionConditionsInner", d)>>]) :
        d \in WireSubclassConditions}

OpenapiRuleLists ==
    SeqsUpTo(CoreWireRules, MaxRules)
    \cup {<<w>> : w \in ContentWireRules \cup WireSubclassConditionRules}

TransformerCall(f) == [op |-> f, cls |-> None, args |-> [none |-> None]]

\* map_request_rules_to_openapi_format(request_rules): rules = []
CallToWire ==
    /\ pc = "idle"
    /\ call.op = None
    /\ \E rs \in RequestRuleLists : request_rules' = rs
    /\ pc' = "to_wire"
    /\ call' = TransformerCall("to_wire")
    /\ idx' = 1
    /\ rules' = <<>>
    /\ UNCHANGED <<obj, outcome, threads, openapi_rules, returned, raised>>

\* a failing rule is left out of rules and the loop goes on
ToWireIter_skip_failing ==
    /\ pc = "to_wire"
    /\ idx <= Len(request_rules)
    /\ LET r == request_rule(request_rules[idx])
       IN  rules' = IF r.ok THEN Append(rules, r.val) ELSE rules
    /\ idx' = idx + 1
    /\ UNCHANGED <<pc, raised, call, obj, outcome, threads, request_rules, openapi_rules,
                   returned>>

\* for rule in request_rules: one iteration, which appends to rules or raises
ToWireIter ==
    /\ pc = "to_wire"
    /\ idx <= Len(request_rules)
    /\ LET r == request_rule(request_rules[idx])
       IN  IF r.ok
           THEN /\ rules' = Append(rules, r.val)
                /\ idx' = idx + 1
                /\ UNCHANGED <<pc, raised>>
           ELSE /\ pc' = "to_wire_raised"
                /\ raised' = r.err
                /\ UNCHANGED <<rules, idx>>
    /\ UNCHANGED <<call, obj, outcome, threads, request_rules, openapi_rules, returned>>

\* the input list is emptied while the result is handed back
ToWireReturn_clears_input ==
    /\ pc = "to_wire"
    /\ idx > Len(request_rules)
    /\ returned' = PyList(rules)
    /\ pc' = "to_wire_returned"
    /\ request_rules' = <<>>
    /\ UNCHANGED <<call, obj, outcome, threads, openapi_rules, idx, rules, raised>>

\* return rules
ToWireReturn ==
    /\ pc = "to_wire"
    /\ idx > Len(request_rules)
    /\ returned' = PyList(rules)
    /\ pc' = "to_wire_returned"
    /\ UNCHANGED <<call, obj, outcome, threads, request_rules, openapi_rules, idx, rules,
                   raised>>

\* map_openapi_rules_to_response_format(result of the call before)
RoundTrip ==
    /\ pc = "to_wire_returned"
    /\ openapi_rules' = returned.list
    /\ pc' = "from_wire"
    /\ call' = TransformerCall("round_trip")
    /\ idx' = 1
    /\ rules' = <<>>
    /\ returned' = PyNone
    /\ UNCHANGED <<obj, outcome, threads, request_rules, raised>>

\* map_openapi_rules_to_response_format(openapi_rules): response_rules = []
CallFromWire ==
    /\ pc = "idle"
    /\ call.op = None
    /\ \E ws \in OpenapiRuleLists : openapi_rules' = ws
    /\ pc' = "from_wire"
    /\ call' = TransformerCall("from_wire")
    /\ idx' = 1
    /\ rules' = <<>>
    /\ UNCHANGED <<obj, outcome, threads, request_rules, returned, raised>>

\* for rule in openapi_rules: one iteration, which appends to response_rules
\* or raises
FromWireIter ==
    /\ pc = "from_wire"
    /\ idx <= Len(openapi_rules)
    /\ LET r == response_rule(openapi_rules[idx])
       IN  IF r.ok
           THEN /\ rules' = Append(rules, r.val)
                /\ idx' = idx + 1
                /\ UNCHANGED <<pc, raised>>
           ELSE /\ pc' = "from_wire_raised"
                /\ raised' = r.err
                /\ UNCHANGED <<rules, idx>>
    /\ UNCHANGED <<call, obj, outcome, threads, request_rules, openapi_rules, returned>>

\* return response_rules
FromWireReturn ==
    /\ pc = "from_wire"
    /\ idx > Len(openapi_rules)
    /\ returned' = PyList(rules)
    /\ pc' = "from_wire_returned"
    /\ UNCHANGED <<call, obj, outcome, threads, request_rules, openapi_rules, idx, rules,
                   raised>>

Next ==
    \/ CallToWire
    \/ ToWireIter
    \/ ToWireReturn
    \/ RoundTrip
    \/ CallFromWire
    \/ FromWireIter
    \/ FromWireReturn

Spec == Init /\ [][Next]_vars

(***************************************************************************)
(* Several threads call the transformers at the same time.  Each call has  *)
(* its own argument and its own locals (its loop position and the list it  *)
(* builds); the calls share the module-level dicts, which no call writes.  *)
(* The steps of the calls interleave in every order.                       *)
(***************************************************************************)
\* the calls a thread makes: the function and its argument
ConcurrentCalls ==
    {[fn |-> "to_wire", arg |-> a] :
        a \in {<<R_send, R_hash>>, <<R_typed, R_illegal, R_send>>, <<R_hash, R_unknownOp>>}}
    \cup {[fn |-> "from_wire", arg |-> a] :
        a \in {<<W_send, W_typed>>, <<W_hash, W_mintAddress, W_send>>}}

\* some other thread is inside a call
OtherRunning(t) == \E u \in Threads \ {t} : threads[u].pc = "running"

other_vars ==
    <<pc, call, obj, outcome, request_rules, openapi_rules, idx, rules, returned, raised>>

\* entry of either transformer: rules = [] / response_rules = []
ThreadCall(t) ==
    /\ threads[t].pc = "idle"
    /\ \E c \in ConcurrentCalls :
           threads' = [threads EXCEPT ![t] =
                          [pc |-> "running", fn |-> c.fn, arg |-> c.arg, idx |-> 1,
                           rules |-> <<>>, returned |-> PyNone, raised |-> None,
                           overlapped |-> FALSE]]
    /\ UNCHANGED other_vars

\* the list being built is one list of the module, which every call appends to
ThreadIter_shared_rules(t) ==
    /\ threads[t].pc = "running"
    /\ threads[t].idx <= Len(threads[t].arg)
    /\ LET me == threads[t]
           r == IF me.fn = "to_wire" THEN request_rule(me.arg[me.idx])
                ELSE response_rule(me.arg[me.idx])
       IN  threads' =
               [u \in Threads |->
                   IF u = t
                   THEN IF r.ok
                        THEN [me EXCEPT !.rules = Append(me.rules, r.val),
                                        !.idx = me.idx + 1,
                                        !.overlapped = me.overlapped \/ OtherRunning(t)]
                        ELSE [me EXCEPT !.pc = "raised", !.raised = r.err,
                                        !.overlapped = me.overlapped \/ OtherRunning(t)]
                   ELSE IF r.ok /\ threads[u].pc = "running"
                        THEN [threads[u] EXCEPT !.rules = Append(threads[u].rules, r.val)]
                        ELSE threads[u]]
    /\ UNCHANGED other_vars

\* one iteration of the loop of either transformer, on the thread's own locals
ThreadIter(t) ==
    /\ threads[t].pc = "running"
    /\ threads[t].idx <= Len(threads[t].arg)
    /\ LET me == threads[t]
           r == IF me.fn = "to_wire" THEN request_rule(me.arg[me.idx])
                ELSE response_rule(me.arg[me.idx])
       IN  threads' =
               [threads EXCEPT ![t] =
                   IF r.ok
                   THEN [me EXCEPT !.rules = Append(me.rules, r.val),
                                   !.idx = me.idx + 1,
                                   !.overlapped = me.overlapped \/ OtherRunning(t)]
                   ELSE [me EXCEPT !.pc = "raised", !.raised = r.err,
                                   !.overlapped = me.overlapped \/ OtherRunning(t)]]
    /\ UNCHANGED other_vars

\* return rules / return response_rules
ThreadReturn(t) ==
    /\ threads[t].pc = "running"
    /\ threads[t].idx > Len(threads[t].arg)
    /\ threads' = [threads EXCEPT ![t].pc = "returned",
                                  ![t].returned = PyList(threads[t].rules)]
    /\ UNCHANGED other_vars

ConcurrentNext ==
    \E t \in Threads :
        \/ ThreadCall(t)
        \/ ThreadIter(t)
        \/ ThreadReturn(t)

SpecConcurrent == Init /\ [][ConcurrentNext]_vars

(***************************************************************************)
(* Properties of types.py, checked under SpecTypes.                        *)
(***************************************************************************)
\* what the documentation asks of the values, independently of the validators
DecimalString(v) == Len(v) > 0 /\ \A k \in 1..Len(v) : v[k] \in AsciiDigit

WellFormedEvmAddress(a) ==
    /\ Len(a) = 42
    /\ a[1] = "0"
    /\ a[2] = "x"
    /\ \A k \in 3..42 : a[k] \in HexChar

\* the allowed criterion types of each operation (the table of the spec)
AllowedCriterionTypes(operation) ==
    CASE operation = "sendEvmTransaction" ->
             {"ethValue", "evmAddress", "evmNetwork", "evmData"}
      [] operation = "signEvmTransaction" -> {"ethValue", "evmAddress", "evmData"}
      [] operation = "signEvmHash" -> {}
      [] operation = "signEvmMessage" -> {"evmMessage"}
      [] operation = "signEvmTypedData" ->
             {"evmTypedDataField", "evmTypedDataVerifyingContract"}
      [] operation = "signSolTransaction" -> {"solAddress"}
      [] OTHER -> {}

OperationOfClass(cls) ==
    CASE cls = "SendEvmTransactionRule" -> "sendEvmTransaction"
      [] cls = "SignEvmTransactionRule" -> "signEvmTransaction"
      [] cls = "SignEvmHashRule" -> "signEvmHash"
      [] cls = "SignEvmMessageRule" -> "signEvmMessage"
      [] cls = "SignEvmTypedDataRule" -> "signEvmTypedData"
      [] cls = "SignSolanaTransactionRule" -> "signSolTransaction"

ValidatedClasses ==
    {"EthValueCriterion", "EvmAddressCriterion", "EvmNetworkCriterion",
     "EvmDataParameterCondition", "EvmDataParameterConditionList",
     "EvmTypedAddressCondition", "EvmTypedNumericalCondition",
     "SignEvmTypedDataVerifyingContractCriterion", "SolanaAddressCriterion"}

\* the validators of x's class accept the values x's fields hold now
PassesValidators(x) ==
    CASE x.cls = "EthValueCriterion" ->
             /\ EthValueCriterion_validate_eth_value(x.ethValue).ok
             /\ x.operator \in {">", "<", ">=", "<=", "==", "!="}
      [] x.cls = "EvmAddressCriterion" ->
             /\ EvmAddressCriterion_validate_addresses_length(x.addresses).ok
             /\ EvmAddressCriterion_validate_addresses_format(x.addresses).ok
             /\ x.operator \in {"in", "not in"}
      [] x.cls = "EvmNetworkCriterion" ->
             /\ \A k \in 1..Len(x.networks) : x.networks[k] \in {"base-sepolia", "base"}
             /\ x.operator \in {"in", "not in"}
      [] x.cls = "EvmDataParameterCondition" ->
             EvmDataParameterCondition_validate_operator_enum(x.operator).ok
      [] x.cls = "EvmDataParameterConditionList" ->
             EvmDataParameterConditionList_validate_operator_enum(x.operator).ok
      [] x.cls = "EvmTypedAddressCondition" ->
             /\ EvmTypedAddressCondition_validate_addresses_length(x.addresses).ok
             /\ EvmTypedAddressCondition_validate_addresses_format(x.addresses).ok
             /\ x.operator \in {"in", "not in"}
      [] x.cls = "EvmTypedNumericalCondition" ->
             /\ EvmTypedNumericalCondition_validate_value(x.value).ok
             /\ x.operator \in {">", "<", ">=", "<=", "=="}
      [] x.cls = "SignEvmTypedDataVerifyingContractCriterion" ->
             /\ VerifyingContract_validate_addresses_length(x.addresses).ok
             /\ VerifyingContract_validate_addresses_format(x.addresses).ok
             /\ x.operator \in {"in", "not in"}
      [] x.cls = "SolanaAddressCriterion" ->
             /\ SolanaAddressCriterion_validate_address_format(x.addresses).ok
             /\ x.operator \in {"in", "not in"}

\* C5 as stated: in every state, whatever was done to the criterion since its
\* construction (attribute assignments included), its fields satisfy the
\* validation rules of its class.
C5_AlwaysValid ==
    obj.cls \in ValidatedClasses => PassesValidators(obj)

\* C5 amended: in the state a successful constructor call leaves, the fields of
\* the criterion satisfy the validation rules of its class.
C5_ValidWhenConstructed ==
    (call.op = "new" /\ outcome = "ok" /\ obj.cls \in ValidatedClasses)
        => PassesValidators(obj)

C5_Witness ==
    /\ call.op = "new"
    /\ outcome = "ok"
    /\ obj.cls = "EvmAddressCriterion"
    /\ Len(obj.addresses) = 300

RuleWithIllegalCriterion(cls, kw) ==
    /\ "criteria" \in DOMAIN kw
    /\ \E k \in 1..Len(kw.criteria) :
           kw.criteria[k].type \notin AllowedCriterionTypes(OperationOfClass(cls))

HoldsOnlyLegalCriteria(rule) ==
    "criteria" \in DOMAIN rule =>
        \A k \in 1..Len(rule.criteria) :
            rule.criteria[k].type \in AllowedCriterionTypes(OperationOfClass(rule.cls))

\* C6 as stated: the constructor of every rule class, called with a criterion of
\* a variant outside its operation's allowed set, fails.
C6_IllegalCriterionRejected ==
    (call.op = "new" /\ call.cls \in RuleClasses
     /\ RuleWithIllegalCriterion(call.cls, call.args))
        => outcome = ValidationError

\* C6 amended: the constructor of every rule class that has a criteria field
\* (all but SignEvmHashRule), called with a criterion of a variant outside its
\* operation's allowed set, fails with a validation error, and the rule a
\* successful constructor call of any rule class leaves holds only criteria of
\* its operation's allowed set (SignEvmHashRule ignores a criteria argument and
\* its rule holds no criteria).
C6_IllegalCriterionRejectedOrDropped ==
    (call.op = "new" /\ call.cls \in RuleClasses) =>
        /\ (call.cls # "SignEvmHashRule" /\ RuleWithIllegalCriterion(call.cls, call.args))
               => outcome = ValidationError
        /\ outcome = "ok" =>
               /\ HoldsOnlyLegalCriteria(obj)
               /\ obj.cls = "SignEvmHashRule" => "criteria" \notin DOMAIN obj

C6_Witness ==
    /\ call.op = "new"
    /\ call.cls = "SignEvmTransactionRule"
    /\ call.args = [action |-> "accept", criteria |-> <<V_ethValue, V_evmNetwork>>]
    /\ outcome = ValidationError

\* C7: EvmAddressCriterion (with an operator of its set) is constructed if and
\* only if the list has at most 300 addresses and each address is "0x" followed
\* by exactly 40 hexadecimal characters.
C7_AcceptedIffWellFormed ==
    (call.op = "new" /\ call.cls = "EvmAddressCriterion"
     /\ call.args.operator \in {"in", "not in"})
        => (outcome = "ok" <=>
               /\ Len(call.args.addresses) <= 300
               /\ \A k \in 1..Len(call.args.addresses) :
                      WellFormedEvmAddress(call.args.addresses[k]))

AddressListClasses ==
    {"EvmAddressCriterion", "EvmTypedAddressCondition",
     "SignEvmTypedDataVerifyingContractCriterion", "SolanaAddressCriterion"}

\* C8 as stated: the constructor of each of the four classes that carry an
\* address list fails when the list has more than 300 entries.
C8_Over300Rejected ==
    (call.op = "new" /\ call.cls \in AddressListClasses
     /\ Len(call.args.addresses) > 300)
        => outcome = ValidationError

\* C8 amended: the constructors of EvmAddressCriterion, EvmTypedAddressCondition
\* and SignEvmTypedDataVerifyingContractCriterion fail with a validation error
\* when the list has more than 300 entries; SolanaAddressCriterion has no limit
\* on the length of the list (more than 300 well-formed addresses are accepted).
C8_Over300RejectedButSolana ==
    (call.op = "new" /\ call.cls \in AddressListClasses
     /\ Len(call.args.addresses) > 300)
        => IF call.cls = "SolanaAddressCriterion"
           THEN (/\ call.args.operator \in {"in", "not in"}
                 /\ \A k \in 1..Len(call.args.addresses) :
                        re_match_sol_address(call.args.addresses[k]))
                    => outcome = "ok"
           ELSE outcome = ValidationError

\* 301 well-formed addresses and an operator of the set: only the length is wrong
C8_Witness ==
    /\ call.op = "new"
    /\ call.cls = "EvmTypedAddressCondition"
    /\ call.args.addresses = Rep(EvmGood, 301)
    /\ call.args.operator = "in"
    /\ outcome = ValidationError

\* C9: a numeric string field (EthValueCriterion.ethValue,
\* EvmTypedNumericalCondition.value) is accepted at construction if and only if
\* it is a non-empty string of decimal digits.
C9_AcceptedIffDecimal ==
    /\ (call.op = "new" /\ call.cls = "EthValueCriterion"
        /\ call.args.operator \in {">", "<", ">=", "<=", "==", "!="})
           => (outcome = "ok" <=> DecimalString(call.args.ethValue))
    /\ (call.op = "new" /\ call.cls = "EvmTypedNumericalCondition"
        /\ call.args.operator \in {">", "<", ">=", "<=", "=="})
           => (outcome = "ok" <=> DecimalString(call.args.value))

\* C10: EvmNetworkCriterion is constructed only if every element of networks is
\* base-sepolia or base; a list with any other name in it makes it fail.
C10_OnlyKnownNetworks ==
    (call.op = "new" /\ call.cls = "EvmNetworkCriterion") =>
        /\ outcome = "ok" =>
               \A k \in 1..Len(call.args.networks) :
                   call.args.networks[k] \in {"base-sepolia", "base"}
        /\ (\E k \in 1..Len(call.args.networks) :
                call.args.networks[k] \notin {"base-sepolia", "base"})
               => outcome = ValidationError

\* a list with a valid name first and "mainnet" after it was rejected
C10_Witness ==
    /\ call.op = "new"
    /\ call.cls = "EvmNetworkCriterion"
    /\ call.args.networks = <<"base", "mainnet">>
    /\ call.args.operator = "in"
    /\ outcome = ValidationError

\* the operator set of each criterion variant, as the specification lists them
OperatorSetOf(cls) ==
    CASE cls = "EthValueCriterion" -> {">", "<", ">=", "<=", "==", "!="}
      [] cls \in {"EvmAddressCriterion", "EvmNetworkCriterion", "SolanaAddressCriterion",
                  "EvmTypedAddressCondition",
                  "SignEvmTypedDataVerifyingContractCriterion"} -> {"in", "not in"}
      [] cls = "EvmDataParameterCondition" -> {">", ">=", "<", "<=", "=="}
      [] cls = "EvmDataParameterConditionList" -> {"in", "not in"}

OperatorClasses ==
    {"EthValueCriterion", "EvmAddressCriterion", "EvmNetworkCriterion",
     "SolanaAddressCriterion", "EvmTypedAddressCondition",
     "SignEvmTypedDataVerifyingContractCriterion", "EvmDataParameterCondition",
     "EvmDataParameterConditionList"}

\* the validators of the fields other than operator accept the arguments
OtherFieldsPass(cls, args) ==
    CASE cls = "EthValueCriterion" -> EthValueCriterion_validate_eth_value(args.ethValue).ok
      [] cls = "EvmAddressCriterion" ->
             Then(EvmAddressCriterion_validate_addresses_length(args.addresses),
                  EvmAddressCriterion_validate_addresses_format).ok
      [] cls = "EvmNetworkCriterion" -> validate_literal_list(args.networks, EvmNetworks).ok
      [] cls = "SolanaAddressCriterion" ->
             SolanaAddressCriterion_validate_address_format(args.addresses).ok
      [] cls = "EvmTypedAddressCondition" ->
             Then(EvmTypedAddressCondition_validate_addresses_length(args.addresses),
                  EvmTypedAddressCondition_validate_addresses_format).ok
      [] cls = "SignEvmTypedDataVerifyingContractCriterion" ->
             Then(VerifyingContract_validate_addresses_length(args.addresses),
                  VerifyingContract_validate_addresses_format).ok
      [] OTHER -> TRUE

\* C11: a constructor call of a criterion variant with an operator outside
\* the variant's operator set fails, and with an operator of the set it
\* succeeds whenever the other fields are valid.
C11_OperatorSets ==
    (call.op = "new" /\ call.cls \in OperatorClasses)
    => /\ outcome = "ok" => call.args.operator \in OperatorSetOf(call.cls)
       /\ (/\ call.args.operator \in OperatorSetOf(call.cls)
           /\ OtherFieldsPass(call.cls, call.args)) => outcome = "ok"

C11_Witness ==
    /\ call.op = "new"
    /\ call.cls = "EvmDataParameterCondition"
    /\ call.args.operator = "!="
    /\ outcome = ValidationError
    /\ obj = NoObject

\* the Base58 alphabet: the digits and letters without 0, O, I and l
Base58Alphabet ==
    ({"0", "1", "2", "3", "4", "5", "6", "7", "8", "9"}
     \cup {"A", "B", "C", "D", "E", "F", "G", "H", "I", "J", "K", "L", "M",
           "N", "O", "P", "Q", "R", "S", "T", "U", "V", "W", "X", "Y", "Z"}
     \cup {"a", "b", "c", "d", "e", "f", "g", "h", "i", "j", "k", "l", "m",
           "n", "o", "p", "q", "r", "s", "t", "u", "v", "w", "x", "y", "z"})
    \ {"0", "O", "I", "l"}

WellFormedSolAddress(a) ==
    /\ Len(a) >= 32
    /\ Len(a) <= 44
    /\ \A k \in 1..Len(a) : a[k] \in Base58Alphabet

\* C12: a SolanaAddressCriterion is constructed only if every address is 32
\* to 44 characters long and holds Base58 characters only.
C12_AcceptedOnlyIfBase58 ==
    (call.op = "new" /\ call.cls = "SolanaAddressCriterion" /\ outcome = "ok")
    => \A k \in 1..Len(call.args.addresses) :
           WellFormedSolAddress(call.args.addresses[k])

EvmAddressListClasses ==
    {"EvmAddressCriterion", "EvmTypedAddressCondition",
     "SignEvmTypedDataVerifyingContractCriterion"}

\* C13: what one of the three constructors over EVM address lists does with
\* an address list (and operator), the other two do as well: all accept it
\* or all reject it.
C13_SameAddressRules ==
    (call.op = "new" /\ call.cls \in EvmAddressListClasses)
    => LET a == call.args.addresses
           o == call.args.operator
       IN  /\ (outcome = "ok") <=> EvmAddressCriterion(a, o).ok
           /\ (outcome = "ok") <=> EvmTypedAddressCondition(a, o, <<"t", "o">>).ok
           /\ (outcome = "ok") <=> SignEvmTypedDataVerifyingContractCriterion(a, o).ok

C13_Witness ==
    /\ call.op = "new"
    /\ call.cls = "SignEvmTypedDataVerifyingContractCriterion"
    /\ call.args.addresses = <<EvmGood, EvmGoodMixed>>
    /\ outcome = "ok"
    /\ EvmAddressCriterion(call.args.addresses, call.args.operator).ok

\* validator V accepts the value v and returns it as it is
ReturnsUnchanged(r, v) == r.ok /\ r.val = v

\* every validator of x's class, run on the value x's field holds, returns it
Revalidates(x) ==
    CASE x.cls = "EthValueCriterion" ->
             ReturnsUnchanged(EthValueCriterion_validate_eth_value(x.ethValue), x.ethValue)
      [] x.cls = "EvmAddressCriterion" ->
             /\ ReturnsUnchanged(EvmAddressCriterion_validate_addresses_length(x.addresses),
                                 x.addresses)
             /\ ReturnsUnchanged(EvmAddressCriterion_validate_addresses_format(x.addresses),
                                 x.addresses)
      [] x.cls = "EvmDataParameterCondition" ->
             ReturnsUnchanged(EvmDataParameterCondition_validate_operator_enum(x.operator),
                              x.operator)
      [] x.cls = "EvmDataParameterConditionList" ->
             ReturnsUnchanged(
                 EvmDataParameterConditionList_validate_operator_enum(x.operator),
                 x.operator)
      [] x.cls = "EvmTypedAddressCondition" ->
             /\ ReturnsUnchanged(
                    EvmTypedAddressCondition_validate_addresses_length(x.addresses),
                    x.addresses)
             /\ ReturnsUnchanged(
                    EvmTypedAddressCondition_validate_addresses_format(x.addresses),
                    x.addresses)
      [] x.cls = "EvmTypedNumericalCondition" ->
             ReturnsUnchanged(EvmTypedNumericalCondition_validate_value(x.value), x.value)
      [] x.cls = "SignEvmTypedDataVerifyingContractCriterion" ->
             /\ ReturnsUnchanged(VerifyingContract_validate_addresses_length(x.addresses),
                                 x.addresses)
             /\ ReturnsUnchanged(VerifyingContract_validate_addresses_format(x.addresses),
                                 x.addresses)
      [] x.cls = "SolanaAddressCriterion" ->
             ReturnsUnchanged(SolanaAddressCriterion_validate_address_format(x.addresses),
                              x.addresses)
      [] OTHER -> TRUE

\* C19: on the field values of a criterion that its constructor has just
\* built, every validator of the class succeeds again and returns the value
\* it was given.
C19_ValidationIdempotent ==
    (call.op = "new" /\ outcome = "ok" /\ obj.cls \in ValidatedClasses)
    => Revalidates(obj)

C19_Witness ==
    /\ call.op = "new"
    /\ outcome = "ok"
    /\ obj.cls = "EthValueCriterion"
    /\ call.args.ethValue = <<"0">>
    /\ obj.ethValue = <<"0">>
    /\ Revalidates(obj)

\* C20: a rule of an operation other than signEvmHash is not constructed
\* without a criteria argument and is constructed with the empty criteria
\* list (and an action); no rule is constructed without an action of
\* {accept, reject}.
C20_CriteriaRequired ==
    (call.op = "new" /\ call.cls \in RuleClasses)
    => /\ (call.cls # "SignEvmHashRule" /\ "criteria" \notin DOMAIN call.args)
          => outcome # "ok"
       /\ (/\ call.cls # "SignEvmHashRule"
           /\ "criteria" \in DOMAIN call.args
           /\ "action" \in DOMAIN call.args
           /\ call.args.criteria = <<>>
           /\ call.args.action \in {"accept", "reject"})
          => (outcome = "ok" /\ obj.criteria = <<>>)
       /\ outcome = "ok"
          => ("action" \in DOMAIN call.args /\ call.args.action \in {"accept", "reject"})

C20_Witness ==
    /\ call.op = "new"
    /\ call.cls = "SignSolanaTransactionRule"
    /\ call.args = [action |-> "reject"]
    /\ outcome = ValidationError

(***************************************************************************)
(* Properties of the transformers, checked under Spec.                     *)
(***************************************************************************)
\* the six operations of the specification
KnownOperations ==
    {"sendEvmTransaction", "signEvmTransaction", "signEvmHash", "signEvmMessage",
     "signEvmTypedData", "signSolTransaction"}

ToWireFinished == pc \in {"to_wire_returned", "to_wire_raised"}
FromWireFinished == pc \in {"from_wire_returned", "from_wire_raised"}

\* C1: for every valid user-facing rule r, the response transformer applied
\* to the request transformer's result for [r] returns [r].
C1_RoundTrip ==
    (/\ call.op = "round_trip"
     /\ FromWireFinished
     /\ Len(request_rules) = 1
     /\ request_rules[1] \in ValidRules)
    => (pc = "from_wire_returned" /\ returned = PyList(request_rules))

\* C2: the request transformer accepts a rule of a known operation iff each
\* of its criteria has a type the table allows for the operation; otherwise
\* the call fails with UnknownCriterionType.
C2_AcceptedIffAllowed ==
    (/\ ToWireFinished
     /\ Len(request_rules) = 1
     /\ request_rules[1].operation \in KnownOperations
     /\ "criteria" \in DOMAIN request_rules[1])
    => LET r == request_rules[1]
           legal == \A k \in 1..Len(r.criteria) :
                        r.criteria[k].type \in AllowedCriterionTypes(r.operation)
       IN  /\ (pc = "to_wire_returned") <=> legal
           /\ ~legal => (raised = UnknownCriterionType /\ returned.none)

C2_Witness ==
    /\ pc = "to_wire_raised"
    /\ raised = UnknownCriterionType
    /\ Len(request_rules) = 1
    /\ request_rules[1].operation = "signEvmTransaction"
    /\ "criteria" \in DOMAIN request_rules[1]
    /\ Len(request_rules[1].criteria) = 1
    /\ request_rules[1].criteria[1].type = "evmNetwork"

UnknownUserOperation(k) == request_rules[k].operation \notin KnownOperations
UnknownWireOperation(k) ==
    openapi_rules[k].actual_instance.operation \notin KnownOperations

\* C3: a call whose list holds a rule with an operation outside the six
\* known ones fails with UnknownOperation and returns no list, in both
\* directions.
C3_UnknownOperationRaised ==
    /\ (ToWireFinished /\ \E k \in 1..Len(request_rules) : UnknownUserOperation(k))
       => (pc = "to_wire_raised" /\ raised = UnknownOperation /\ returned.none)
    /\ (FromWireFinished /\ \E k \in 1..Len(openapi_rules) : UnknownWireOperation(k))
       => (pc = "from_wire_raised" /\ raised = UnknownOperation /\ returned.none)

\* C3 as amended: such a call fails at or before the first rule with an
\* unknown operation and returns no list; when it fails at that rule, the
\* error is UnknownOperation.
C3_UnknownOperationRaisedFirst ==
    /\ (ToWireFinished /\ \E k \in 1..Len(request_rules) : UnknownUserOperation(k))
       => LET first == CHOOSE k \in 1..Len(request_rules) :
                           /\ UnknownUserOperation(k)
                           /\ \A j \in 1..(k - 1) : ~UnknownUserOperation(j)
          IN  /\ pc = "to_wire_raised"
              /\ returned.none
              /\ idx <= first
              /\ idx = first => raised = UnknownOperation
    /\ (FromWireFinished /\ \E k \in 1..Len(openapi_rules) : UnknownWireOperation(k))
       => LET first == CHOOSE k \in 1..Len(openapi_rules) :
                           /\ UnknownWireOperation(k)
                           /\ \A j \in 1..(k - 1) : ~UnknownWireOperation(j)
          IN  /\ pc = "from_wire_raised"
              /\ returned.none
              /\ idx <= first
              /\ idx = first => raised = UnknownOperation

C3_Witness ==
    /\ pc = "to_wire_raised"
    /\ raised = UnknownOperation
    /\ idx = 2
    /\ UnknownUserOperation(2)

FailsToWire(k) == ~request_rule(request_rules[k]).ok
FailsFromWire(k) == ~response_rule(openapi_rules[k]).ok

\* C4: a call on a list in which some rule fails to transform never returns
\* a list: it stops at the first such rule with an error, whatever the
\* number of rules transformed before it.
C4_NoPartialList ==
    /\ (/\ pc \in {"to_wire", "to_wire_returned", "to_wire_raised"}
        /\ \E k \in 1..Len(request_rules) : FailsToWire(k))
       => LET first == CHOOSE k \in 1..Len(request_rules) :
                           FailsToWire(k) /\ \A j \in 1..(k - 1) : ~FailsToWire(j)
          IN  /\ pc # "to_wire_returned"
              /\ returned.none
              /\ idx <= first
              /\ pc = "to_wire_raised" => (idx = first /\ raised # None)
    /\ (/\ pc \in {"from_wire", "from_wire_returned", "from_wire_raised"}
        /\ \E k \in 1..Len(openapi_rules) : FailsFromWire(k))
       => LET first == CHOOSE k \in 1..Len(openapi_rules) :
                           FailsFromWire(k) /\ \A j \in 1..(k - 1) : ~FailsFromWire(j)
          IN  /\ pc # "from_wire_returned"
              /\ returned.none
              /\ idx <= first
              /\ pc = "from_wire_raised" => (idx = first /\ raised # None)

C4_Witness ==
    /\ pc = "to_wire_raised"
    /\ idx = 3
    /\ Len(rules) = 2
    /\ returned.none

ToWireRunning == pc \in {"to_wire", "to_wire_returned", "to_wire_raised"}
FromWireRunning == pc \in {"from_wire", "from_wire_returned", "from_wire_raised"}

\* C14: for a signEvmHash rule without criteria the request transformer
\* emits a wire rule holding the action, the operation "signEvmHash" and
\* nothing else; for a wire signEvmHash rule the response transformer builds
\* a SignEvmHashRule with the same action and no criteria.
C14_HashRuleBare ==
    /\ ToWireRunning
       => \A k \in 1..Len(rules) :
              (/\ request_rules[k].operation = "signEvmHash"
               /\ "criteria" \notin DOMAIN request_rules[k])
              => /\ DOMAIN rules[k].actual_instance = {"cls", "action", "operation"}
                 /\ rules[k].actual_instance.cls = "openapi.SignEvmHashRule"
                 /\ rules[k].actual_instance.action = request_rules[k].action
                 /\ rules[k].actual_instance.operation = "signEvmHash"
    /\ FromWireRunning
       => \A k \in 1..Len(rules) :
              openapi_rules[k].actual_instance.operation = "signEvmHash"
              => /\ rules[k].cls = "SignEvmHashRule"
                 /\ rules[k].action = openapi_rules[k].actual_instance.action
                 /\ rules[k].operation = "signEvmHash"
                 /\ "criteria" \notin DOMAIN rules[k]

C14_Witness ==
    /\ pc = "from_wire_returned"
    /\ call.op = "round_trip"
    /\ request_rules = <<R_hash>>
    /\ openapi_rules = <<W_hash>>
    /\ returned = PyList(<<R_hash>>)

\* the wire condition w is the sub-variant of the kind of the user-facing
\* condition u and holds the same values
SameTypedCondition(u, w) ==
    CASE u.cls = "EvmTypedAddressCondition" ->
             /\ w.cls = "openapi.EvmTypedAddressCondition"
             /\ w.addresses = u.addresses
             /\ w.operator = u.operator
             /\ w.path = u.path
      [] u.cls = "EvmTypedNumericalCondition" ->
             /\ w.cls = "openapi.EvmTypedNumericalCondition"
             /\ w.value = u.value
             /\ w.operator = u.operator
             /\ w.path = u.path
      [] u.cls = "EvmTypedStringCondition" ->
             /\ w.cls = "openapi.EvmTypedStringCondition"
             /\ w.match = u.match
             /\ w.path = u.path

\* C15: for a signEvmTypedData rule the wire conditions of each
\* evmTypedDataField criterion are, position by position, the wire
\* sub-variants of the same kind with the same values; and the response
\* transformer applied to the result returns the original rule.
C15_TypedConditionsPreserved ==
    /\ ToWireRunning
       => \A k \in 1..Len(rules) :
              (/\ request_rules[k].operation = "signEvmTypedData"
               /\ "criteria" \in DOMAIN request_rules[k])
              => \A j \in 1..Len(request_rules[k].criteria) :
                     request_rules[k].criteria[j].type = "evmTypedDataField"
                     => LET uc == request_rules[k].criteria[j].conditions
                            wc == rules[k].actual_instance.criteria[j]
                                      .actual_instance.conditions
                        IN  /\ Len(wc) = Len(uc)
                            /\ \A i \in 1..Len(uc) :
                                   SameTypedCondition(uc[i], wc[i].actual_instance)
    /\ (/\ call.op = "round_trip"
        /\ FromWireFinished
        /\ Len(request_rules) = 1
        /\ request_rules[1] \in TypedFieldRules)
       => (pc = "from_wire_returned" /\ returned = PyList(request_rules))

C15_Witness ==
    /\ call.op = "round_trip"
    /\ pc = "from_wire_returned"
    /\ Len(request_rules) = 1
    /\ request_rules[1] \in TypedFieldRules
    /\ request_rules[1].criteria[1].conditions
           = <<V_typedNumerical, V_typedString, V_typedAddress>>
    /\ returned = PyList(request_rules)

\* the criterion types that occur in user-facing or wire rules
CriterionTypes ==
    {"ethValue", "evmAddress", "evmNetwork", "evmData", "evmMessage",
     "evmTypedDataField", "evmTypedDataVerifyingContract", "solAddress", "mintAddress"}

\* the (operation, criterion type) pairs each transformer has a constructor for
RequestPairs ==
    {p \in openapi_operations \X CriterionTypes : p[2] \in openapi_criterion_types(p[1])}
ResponsePairs ==
    {p \in response_operations \X CriterionTypes : p[2] \in response_criterion_types(p[1])}

\* criterion j of the wire rule w has a type outside the set of w's
\* operation, and the criteria before it were converted
FirstUnknownType(w, j) ==
    /\ w.criteria[j].actual_instance.type \notin openapi_criterion_types(w.operation)
    /\ \A i \in 1..(j - 1) :
           LET c == w.criteria[i].actual_instance
           IN  /\ c.type \in response_criterion_types(w.operation)
               /\ response_criterion_mapping(w.operation, c.type, c).ok

\* C16: the response transformer has the operations and the (operation,
\* criterion type) pairs of the request transformer; it converts no wire rule
\* of another operation and no wire criterion of another pair, and it fails
\* with UnknownOperation at such a rule and with UnknownCriterionType at such
\* a criterion.
C16_SameDispatchKeys ==
    /\ response_operations = openapi_operations
    /\ ResponsePairs = RequestPairs
    /\ FromWireRunning
       => \A k \in 1..Len(rules) :
              LET w == openapi_rules[k].actual_instance
              IN  /\ w.operation \in openapi_operations
                  /\ "criteria" \in DOMAIN w
                     => \A j \in 1..Len(w.criteria) :
                            <<w.operation, w.criteria[j].actual_instance.type>>
                                \in RequestPairs
    /\ pc = "from_wire_raised"
       => LET w == openapi_rules[idx].actual_instance
          IN  /\ w.operation \notin openapi_operations => raised = UnknownOperation
              /\ (/\ w.operation \in openapi_operations
                  /\ "criteria" \in DOMAIN w
                  /\ \E j \in 1..Len(w.criteria) : FirstUnknownType(w, j))
                 => raised = UnknownCriterionType

C16_Witness ==
    /\ pc = "from_wire_raised"
    /\ raised = UnknownCriterionType
    /\ idx = 2
    /\ openapi_rules[idx] = W_mintAddress
    /\ Len(rules) = 1

\* what the caller got from the finished call: the list or the error
Outcome == IF returned.none THEN Raise(raised) ELSE Ok(returned.list)

\* C17: no step of a call changes the list the call was given, nor any rule,
\* criterion or condition in it, and what a finished call returned or raised
\* is the value of a function of that list alone.
C17_InputUnchanged ==
    [][/\ ToWireRunning => request_rules' = request_rules
       /\ FromWireRunning => openapi_rules' = openapi_rules
       /\ (ToWireRunning /\ pc' \in {"to_wire_returned", "to_wire_raised"})
          => /\ Outcome' = map_request_rules_to_openapi_format(request_rules)
             /\ Outcome' = map_request_rules_to_openapi_format(request_rules')
       /\ (FromWireRunning /\ pc' \in {"from_wire_returned", "from_wire_raised"})
          => /\ Outcome' = map_openapi_rules_to_response_format(openapi_rules)
             /\ Outcome' = map_openapi_rules_to_response_format(openapi_rules')]_vars

C17_Witness ==
    /\ pc = "to_wire_returned"
    /\ Len(request_rules) = 3
    /\ request_rules[1] = R_send
    /\ Outcome = map_request_rules_to_openapi_format(request_rules)
    /\ Len(returned.list) = 3

\* what the call of thread t returned or raised
ThreadOutcome(t) ==
    IF threads[t].pc = "returned" THEN Ok(threads[t].returned.list)
    ELSE Raise(threads[t].raised)

\* what the call of thread t returns or raises when it runs alone
AloneOutcome(t) ==
    IF threads[t].fn = "to_wire" THEN map_request_rules_to_openapi_format(threads[t].arg)
    ELSE map_openapi_rules_to_response_format(threads[t].arg)

\* C18: under every interleaving of the steps of the threads' calls, each
\* finished call returned or raised what it returns or raises when it runs
\* alone.
C18_SameAsAlone ==
    \A t \in Threads :
        threads[t].pc \in {"returned", "raised"} => ThreadOutcome(t) = AloneOutcome(t)

C18_Witness ==
    /\ threads[1].pc = "returned"
    /\ threads[1].overlapped
    /\ Len(threads[1].returned.list) = 2
    /\ threads[2].pc = "raised"
    /\ threads[2].overlapped
    /\ threads[2].idx = 2

\* the sub-variant the fields of a parameter condition select
ParamVariant(p) == IF "values" \in DOMAIN p THEN "list" ELSE "single"

\* the sub-variant the fields of a typed-data condition select
TypedVariant(c) ==
    IF "addresses" \in DOMAIN c THEN "address"
    ELSE IF "value" \in DOMAIN c THEN "numerical"
    ELSE "string"

\* the sub-variant a class of types.py or of the wire models stands for
VariantOfClass(cls) ==
    CASE cls \in {"EvmDataParameterConditionList",
                  "openapi.EvmDataParameterConditionList"} -> "list"
      [] cls \in {"EvmDataParameterCondition",
                  "openapi.EvmDataParameterCondition"} -> "single"
      [] cls \in {"EvmTypedAddressCondition",
                  "openapi.EvmTypedAddressCondition"} -> "address"
      [] cls \in {"EvmTypedNumericalCondition",
                  "openapi.EvmTypedNumericalCondition"} -> "numerical"
      [] cls \in {"EvmTypedStringCondition",
                  "openapi.EvmTypedStringCondition"} -> "string"
      [] OTHER -> "none"

\* the sub-variants of the criterion out are those the fields of the
\* criterion in select, condition by condition and parameter by parameter;
\* Inst(x) is the instance a list element of in holds, InstOut(x) of out
VariantsFollowFields(in, out, Inst(_), InstOut(_)) ==
    /\ in.type = "evmData"
       => \A i \in 1..Len(in.conditions) :
              truthy(in.conditions[i].params)
              => LET ps == in.conditions[i].params.list
                     qs == out.conditions[i].params.list
                 IN  \A n \in 1..Len(ps) :
                         VariantOfClass(InstOut(qs[n]).cls) = ParamVariant(Inst(ps[n]))
    /\ in.type = "evmTypedDataField"
       => \A i \in 1..Len(in.conditions) :
              VariantOfClass(InstOut(out.conditions[i]).cls)
                  = TypedVariant(Inst(in.conditions[i]))

Itself(x) == x
ActualInstance(x) == x.actual_instance

\* C21: the request transformer emits a parameter condition as the list
\* variant exactly when it has a values field, else as the single-value
\* variant, and a typed-data condition as the address variant when it has
\* addresses, else the numerical variant when it has value, else the string
\* variant; the response transformer chooses by the same fields of the wire
\* instance; and the sub-variants a round trip returns are those of the rules
\* it started from.
C21_SubVariantByFieldPresence ==
    /\ ToWireRunning
       => \A k \in 1..Len(rules) :
              "criteria" \in DOMAIN request_rules[k]
              => \A j \in 1..Len(request_rules[k].criteria) :
                     VariantsFollowFields(
                         request_rules[k].criteria[j],
                         rules[k].actual_instance.criteria[j].actual_instance,
                         Itself, ActualInstance)
    /\ FromWireRunning
       => \A k \in 1..Len(rules) :
              "criteria" \in DOMAIN openapi_rules[k].actual_instance
              => \A j \in 1..Len(openapi_rules[k].actual_instance.criteria) :
                     VariantsFollowFields(
                         openapi_rules[k].actual_instance.criteria[j].actual_instance,
                         rules[k].criteria[j],
                         ActualInstance, Itself)
    /\ (call.op = "round_trip" /\ FromWireRunning)
       => \A k \in 1..Len(rules) :
              "criteria" \in DOMAIN request_rules[k]
              => \A j \in 1..Len(request_rules[k].criteria) :
                     LET u == request_rules[k].criteria[j]
                         v == rules[k].criteria[j]
                     IN  /\ u.type = "evmData"
                            => \A i \in 1..Len(u.conditions) :
                                   truthy(u.conditions[i].params)
                                   => \A n \in 1..Len(u.conditions[i].params.list) :
                                          v.conditions[i].params.list[n].cls
                                              = u.conditions[i].params.list[n].cls
                         /\ u.type = "evmTypedDataField"
                            => \A i \in 1..Len(u.conditions) :
                                   v.conditions[i].cls = u.conditions[i].cls

C21_Witness ==
    /\ call.op = "round_trip"
    /\ pc = "from_wire_returned"
    /\ request_rules = <<R_send>>
    /\ LET w == openapi_rules[1].actual_instance.criteria[2].actual_instance
           v == returned.list[1].criteria[2]
       IN  /\ w.conditions[2].params.list[1].actual_instance.cls
                  = "openapi.EvmDataParameterCondition"
           /\ w.conditions[2].params.list[2].actual_instance.cls
                  = "openapi.EvmDataParameterConditionList"
           /\ v.conditions[2].params.list[2].cls = "EvmDataParameterConditionList"

\* the operation of the user-facing rule r and the types of its criteria are
\* among those of the tables
RecognizedUserRule(r) ==
    /\ r.operation \in KnownOperations
    /\ "criteria" \in DOMAIN r
       => \A j \in 1..Len(r.criteria) :
              r.criteria[j].type \in AllowedCriterionTypes(r.operation)

\* the same of the wire rule w
RecognizedWireRule(w) ==
    /\ w.actual_instance.operation \in KnownOperations
    /\ "criteria" \in DOMAIN w.actual_instance
       => \A j \in 1..Len(w.actual_instance.criteria) :
              w.actual_instance.criteria[j].actual_instance.type
                  \in AllowedCriterionTypes(w.actual_instance.operation)

\* the number of criteria the rule x holds
NumCriteria(x) == IF "criteria" \in DOMAIN x THEN Len(x.criteria) ELSE 0

\* the list out has one rule per rule of the list in, each with one
\* criterion per criterion of its rule; Inst(x) is the instance an element of
\* in holds, InstOut(x) of out
OnePerInput(in, out, Inst(_), InstOut(_)) ==
    /\ Len(out) = Len(in)
    /\ \A k \in 1..Len(in) : NumCriteria(InstOut(out[k])) = NumCriteria(Inst(in[k]))

\* C22: a finished call of either transformer on a list whose operations and
\* criterion types are all recognized returned a list, after one loop
\* iteration per rule and with one output per rule and per criterion; a
\* finished call on a list with an unrecognized operation or criterion type
\* raised an error and returned nothing.
C22_TotalOnRecognizedTags ==
    /\ ToWireFinished
       => IF \A k \in 1..Len(request_rules) : RecognizedUserRule(request_rules[k])
          THEN /\ pc = "to_wire_returned"
               /\ idx = Len(request_rules) + 1
               /\ OnePerInput(request_rules, returned.list, Itself, ActualInstance)
          ELSE pc = "to_wire_raised" /\ returned.none /\ raised # None
    /\ FromWireFinished
       => IF \A k \in 1..Len(openapi_rules) : RecognizedWireRule(openapi_rules[k])
          THEN /\ pc = "from_wire_returned"
               /\ idx = Len(openapi_rules) + 1
               /\ OnePerInput(openapi_rules, returned.list, ActualInstance, Itself)
          ELSE pc = "from_wire_raised" /\ returned.none /\ raised # None

\* C23: the list a transformer returned has the length of the list it was
\* given; its k-th rule is built from the k-th rule given, and the j-th
\* criterion of that rule is what the constructor of the table makes of the
\* j-th criterion of the rule given: none is dropped, duplicated or moved.
C23_OrderPreserved ==
    /\ pc = "to_wire_returned"
       => /\ Len(returned.list) = Len(request_rules)
          /\ \A k \in 1..Len(request_rules) :
                 LET u == request_rules[k]
                     w == returned.list[k].actual_instance
                 IN  /\ returned.list[k] = request_rule(u).val
                     /\ w.operation = u.operation
                     /\ NumCriteria(w) = NumCriteria(u)
                     /\ \A j \in 1..NumCriteria(u) :
                            w.criteria[j] = openapi_criterion_mapping(
                                                u.operation, u.criteria[j].type,
                                                u.criteria[j])
    /\ pc = "from_wire_returned"
       => /\ Len(returned.list) = Len(openapi_rules)
          /\ \A k \in 1..Len(openapi_rules) :
                 LET w == openapi_rules[k].actual_instance
                     u == returned.list[k]
                 IN  /\ u = response_rule(openapi_rules[k]).val
                     /\ u.operation = w.operation
                     /\ NumCriteria(u) = NumCriteria(w)
                     /\ \A j \in 1..NumCriteria(w) :
                            u.criteria[j] = response_criterion_mapping(
                                                w.operation,
                                                w.criteria[j].actual_instance.type,
                                                w.criteria[j].actual_instance).val

C23_Witness ==
    /\ call.op = "round_trip"
    /\ pc = "from_wire_returned"
    /\ request_rules = <<R_typed, R_hash, R_send>>
    /\ Len(openapi_rules) = 3
    /\ Len(returned.list) = 3
    /\ returned.list[3].criteria[1].type = "ethValue"
    /\ returned.list[3].criteria[2].type = "evmData"

\* C24: the request transformer gives a wire condition params None for an
\* evmData condition whose params is None or the empty list, the response
\* transformer gives a user-facing condition params None for a wire condition
\* whose params is None or empty, and no condition either transformer built
\* holds an empty params list.
C24_NoEmptyParams ==
    /\ ToWireRunning
       => \A k \in 1..Len(rules) :
              \A j \in 1..NumCriteria(request_rules[k]) :
                  request_rules[k].criteria[j].type = "evmData"
                  => LET uc == request_rules[k].criteria[j].conditions
                         wc == rules[k].actual_instance.criteria[j]
                                   .actual_instance.conditions
                     IN  \A i \in 1..Len(uc) :
                             /\ (uc[i].params.none \/ uc[i].params.list = <<>>)
                                => wc[i].params = PyNone
                             /\ wc[i].params # PyList(<<>>)
    /\ FromWireRunning
       => \A k \in 1..Len(rules) :
              \A j \in 1..NumCriteria(openapi_rules[k].actual_instance) :
                  LET w == openapi_rules[k].actual_instance.criteria[j].actual_instance
                  IN  w.type = "evmData"
                      => LET uc == rules[k].criteria[j].conditions
                         IN  \A i \in 1..Len(w.conditions) :
                                 /\ (\/ w.conditions[i].params.none
                                     \/ w.conditions[i].params.list = <<>>)
                                    => uc[i].params = PyNone
                                 /\ uc[i].params # PyList(<<>>)

C24_Witness ==
    /\ call.op = "round_trip"
    /\ pc = "from_wire_returned"
    /\ Len(request_rules) = 1
    /\ request_rules[1].operation = "sendEvmTransaction"
    /\ request_rules[1].criteria = <<V_evmDataEmptyParams>>
    /\ openapi_rules[1].actual_instance.criteria[1].actual_instance
           .conditions[1].params = PyNone
    /\ returned.list[1].criteria[1].conditions[1].params = PyNone

\* the error the tables assign to the user-facing rule r: unknown operation
\* first, then the first criterion of a type outside the operation's set
UserRuleError(r) ==
    IF r.operation \notin KnownOperations THEN UnknownOperation
    ELSE IF \E j \in 1..NumCriteria(r) :
                r.criteria[j].type \notin AllowedCriterionTypes(r.operation)
    THEN UnknownCriterionType
    ELSE None

\* the error of the wire criterion c under the operation op
WireCriterionError(op, c) ==
    IF c.type \notin AllowedCriterionTypes(op) THEN UnknownCriterionType
    ELSE IF ~response_criterion_mapping(op, c.type, c).ok THEN ValidationError
    ELSE None

\* the error of the wire rule w: unknown operation first, then the error of
\* its first failing criterion, then that of the rule constructor
WireRuleError(w) ==
    IF w.operation \notin KnownOperations THEN UnknownOperation
    ELSE IF \E j \in 1..NumCriteria(w) :
                WireCriterionError(w.operation, w.criteria[j].actual_instance) # None
    THEN LET j == CHOOSE j \in 1..NumCriteria(w) :
                      /\ WireCriterionError(w.operation,
                                            w.criteria[j].actual_instance) # None
                      /\ \A i \in 1..(j - 1) :
                             WireCriterionError(w.operation,
                                                w.criteria[i].actual_instance) = None
         IN  WireCriterionError(w.operation, w.criteria[j].actual_instance)
    ELSE IF ~response_rule(OneOf("Rule", w)).ok THEN ValidationError
    ELSE None

\* C25: a call that raised stopped at the first rule of its list that has
\* an error, with the rules before it converted and none after it visited,
\* and raised that rule's error: UnknownOperation for a rule of an unknown
\* operation whatever its criteria, otherwise the error of the rule's first
\* failing criterion; a call that returned had no rule with an error.
C25_FirstErrorInListOrder ==
    /\ pc = "to_wire_raised"
       => /\ UserRuleError(request_rules[idx]) # None
          /\ \A j \in 1..(idx - 1) : UserRuleError(request_rules[j]) = None
          /\ Len(rules) = idx - 1
          /\ raised = UserRuleError(request_rules[idx])
    /\ pc = "to_wire_returned"
       => \A k \in 1..Len(request_rules) : UserRuleError(request_rules[k]) = None
    /\ pc = "from_wire_raised"
       => /\ WireRuleError(openapi_rules[idx].actual_instance) # None
          /\ \A j \in 1..(idx - 1) : WireRuleError(openapi_rules[j].actual_instance) = None
          /\ Len(rules) = idx - 1
          /\ raised = WireRuleError(openapi_rules[idx].actual_instance)
    /\ pc = "from_wire_returned"
       => \A k \in 1..Len(openapi_rules) :
              WireRuleError(openapi_rules[k].actual_instance) = None

C25_Witness ==
    /\ pc = "from_wire_raised"
    /\ openapi_rules = <<W_send, W_twoFailures, W_unknownOpCriteria>>
    /\ idx = 2
    /\ raised = ValidationError

\* the fields of the criterion c, and of the conditions and parameters in
\* it, pass the validators of their classes
CriterionPassesValidators(c) ==
    /\ c.cls \in ValidatedClasses => PassesValidators(c)
    /\ c.cls = "EvmDataCriterion"
       => \A i \in 1..Len(c.conditions) :
              truthy(c.conditions[i].params)
              => \A n \in 1..Len(c.conditions[i].params.list) :
                     PassesValidators(c.conditions[i].params.list[n])
    /\ c.cls = "SignEvmTypedDataFieldCriterion"
       => \A i \in 1..Len(c.conditions) :
              c.conditions[i].cls \in ValidatedClasses
              => PassesValidators(c.conditions[i])

\* the user-facing rule u is one its constructor accepts
RulePassesValidators(u) ==
    /\ u.action \in Action
    /\ u.operation = OperationOfClass(u.cls)
    /\ HoldsOnlyLegalCriteria(u)
    /\ \A j \in 1..NumCriteria(u) : CriterionPassesValidators(u.criteria[j])

\* the content of the wire criterion c passes the validators of the
\* user-facing class of its type
WireContentPasses(op, c) == response_criterion_mapping(op, c.type, c).ok

C27_TagsPreserved ==
    /\ ToWireRunning
       => \A k \in 1..Len(rules) :
              LET u == request_rules[k]
                  w == rules[k].actual_instance
              IN  /\ w.operation = u.operation
                  /\ w.action = u.action
                  /\ NumCriteria(w) = NumCriteria(u)
                  /\ \A j \in 1..NumCriteria(u) :
                         w.criteria[j].actual_instance.type = u.criteria[j].type
    /\ FromWireRunning
       => \A k \in 1..Len(rules) :
              LET w == openapi_rules[k].actual_instance
                  u == rules[k]
              IN  /\ u.operation = w.operation
                  /\ u.action = w.action
                  /\ NumCriteria(u) = NumCriteria(w)
                  /\ \A j \in 1..NumCriteria(w) :
                         u.criteria[j].type = w.criteria[j].actual_instance.type

C27_Witness ==
    /\ call.op = "round_trip"
    /\ pc = "from_wire_returned"
    /\ request_rules = <<R_send, R_typed>>
    /\ openapi_rules[1].actual_instance.operation = "sendEvmTransaction"
    /\ openapi_rules[1].actual_instance.criteria[1].actual_instance.type = "ethValue"
    /\ returned.list[1].operation = "sendEvmTransaction"
    /\ returned.list[1].action = "accept"
    /\ returned.list[2].criteria[1].type = "evmTypedDataField"

\* the criterion types sendEvmTransaction and signEvmTransaction share
SharedCriterionTypes == {"ethValue", "evmAddress", "evmData"}

\* of sendEvmTransaction and signEvmTransaction, the one that op is not
OtherTransactionOperation(op) ==
    IF op = "sendEvmTransaction" THEN "signEvmTransaction" ELSE "sendEvmTransaction"

\* the envelope class of the criteria of a wire rule of the operation
EnvelopeOf(op) ==
    IF op = "sendEvmTransaction" THEN "SendEvmTransactionCriteriaInner"
    ELSE "SignEvmTransactionCriteriaInner"

\* C28: for a criterion of a type sendEvmTransaction and signEvmTransaction
\* share, the wire criterion the request transformer built under one of the
\* operations holds the payload the builder of the other operation makes of
\* the same criterion, in the envelope of its own operation; and the
\* criterion the response transformer built under one of them is the one the
\* constructor of the other makes of the same wire criterion.
C28_SharedTypesAlike ==
    /\ ToWireRunning
       => \A k \in 1..Len(rules) :
              request_rules[k].operation \in {"sendEvmTransaction", "signEvmTransaction"}
              => \A j \in 1..NumCriteria(request_rules[k]) :
                     LET op == request_rules[k].operation
                         c == request_rules[k].criteria[j]
                         w == rules[k].actual_instance.criteria[j]
                         other == openapi_criterion_mapping(
                                      OtherTransactionOperation(op), c.type, c)
                     IN  c.type \in SharedCriterionTypes
                         => /\ w.actual_instance = other.actual_instance
                            /\ w.cls = EnvelopeOf(op)
                            /\ other.cls = EnvelopeOf(OtherTransactionOperation(op))
    /\ FromWireRunning
       => \A k \in 1..Len(rules) :
              openapi_rules[k].actual_instance.operation
                  \in {"sendEvmTransaction", "signEvmTransaction"}
              => \A j \in 1..NumCriteria(openapi_rules[k].actual_instance) :
                     LET op == openapi_rules[k].actual_instance.operation
                         c == openapi_rules[k].actual_instance.criteria[j].actual_instance
                     IN  c.type \in SharedCriterionTypes
                         => Ok(rules[k].criteria[j])
                                = response_criterion_mapping(
                                      OtherTransactionOperation(op), c.type, c)

C28_Witness ==
    /\ call.op = "round_trip"
    /\ pc = "from_wire_returned"
    /\ Len(request_rules) = 1
    /\ request_rules[1].operation = "signEvmTransaction"
    /\ "criteria" \in DOMAIN request_rules[1]
    /\ request_rules[1].criteria = <<V_ethValue, V_evmData>>
    /\ openapi_rules[1].actual_instance.criteria[2].actual_instance
           = send_evmData(V_evmData).actual_instance
    /\ openapi_rules[1].actual_instance.criteria[2].cls
           = "SignEvmTransactionCriteriaInner"
    /\ returned.list[1].criteria = <<V_ethValue, V_evmData>>

\* the condition out is of the sub-variant the precedence addresses, value,
\* match selects for the fields of the condition in, and holds that
\* sub-variant's fields of in and no others
ChosenByPrecedence(in, out) ==
    /\ "addresses" \in DOMAIN in
       => /\ VariantOfClass(out.cls) = "address"
          /\ DOMAIN out = {"cls", "addresses", "operator", "path"}
          /\ out.addresses = in.addresses
          /\ out.operator = in.operator
    /\ ("addresses" \notin DOMAIN in /\ "value" \in DOMAIN in)
       => /\ VariantOfClass(out.cls) = "numerical"
          /\ DOMAIN out = {"cls", "value", "operator", "path"}
          /\ out.value = in.value
          /\ out.operator = in.operator
    /\ VariantOfClass(out.cls) = "string"
       <=> ("addresses" \notin DOMAIN in /\ "value" \notin DOMAIN in)
    /\ VariantOfClass(out.cls) = "string"
       => (DOMAIN out = {"cls", "match", "path"} /\ out.match = in.match)
    /\ out.path = in.path

\* the condition c exposes more than one of addresses, value and match
SeveralDiscriminators(c) ==
    Cardinality({"addresses", "value", "match"} \cap DOMAIN c) > 1

\* C29: for every typed-data condition, those that expose several of
\* addresses, value and match included, both transformers build the address
\* variant when the condition has addresses, else the numerical variant when
\* it has value, and the string variant only when it has neither.
C29_FixedPrecedence ==
    /\ ToWireRunning
       => \A k \in 1..Len(rules) :
              \A j \in 1..NumCriteria(request_rules[k]) :
                  request_rules[k].criteria[j].type = "evmTypedDataField"
                  => LET uc == request_rules[k].criteria[j].conditions
                         wc == rules[k].actual_instance.criteria[j]
                                   .actual_instance.conditions
                     IN  \A i \in 1..Len(uc) :
                             ChosenByPrecedence(uc[i], wc[i].actual_instance)
    /\ FromWireRunning
       => \A k \in 1..Len(rules) :
              \A j \in 1..NumCriteria(openapi_rules[k].actual_instance) :
                  LET w == openapi_rules[k].actual_instance.criteria[j].actual_instance
                  IN  w.type = "evmTypedDataField"
                      => \A i \in 1..Len(w.conditions) :
                             ChosenByPrecedence(w.conditions[i].actual_instance,
                                                rules[k].criteria[j].conditions[i])

C29_Witness ==
    /\ pc = "from_wire_returned"
    /\ call.op = "from_wire"
    /\ Len(openapi_rules) = 1
    /\ openapi_rules[1] \in WireSubclassConditionRules
    /\ LET d == openapi_rules[1].actual_instance.criteria[1].actual_instance
                    .conditions[2].actual_instance
       IN  /\ SeveralDiscriminators(d)
           /\ DOMAIN d = {"cls", "addresses", "operator", "path", "value", "match"}
    /\ returned.list[1].criteria[1].conditions[2] = V_typedAddress

\* C30: in each transformer the rule-class table has the keys of the
\* criterion table, the six operations, so that no call ever fails in the
\* rule-class lookup; every rule built is of the class registered under the
\* operation of the rule it was built from; and the class the response
\* transformer has under an operation fixes that operation as its tag.
C30_TablesConsistent ==
    /\ openapi_rule_operations = openapi_operations
    /\ openapi_operations = KnownOperations
    /\ response_rule_operations = response_operations
    /\ response_operations = KnownOperations
    /\ \A op \in response_rule_operations :
           LET r == NewRule(response_rule_mapping(op),
                            [action |-> "accept", criteria |-> <<>>])
           IN  r.ok /\ r.val.operation = op
    /\ raised # KeyError
    /\ ToWireRunning
       => \A k \in 1..Len(rules) :
              /\ request_rules[k].operation \in openapi_rule_operations
              /\ rules[k].actual_instance.cls
                     = openapi_rule_mapping(request_rules[k].operation)
    /\ FromWireRunning
       => \A k \in 1..Len(rules) :
              LET op == openapi_rules[k].actual_instance.operation
              IN  /\ op \in response_rule_operations
                  /\ rules[k].cls = response_rule_mapping(op)
                  /\ rules[k].operation = op

C30_Witness ==
    /\ pc = "from_wire_returned"
    /\ call.op = "from_wire"
    /\ openapi_rules = <<W_hash, W_typed, W_send>>
    /\ returned.list[1].cls = "SignEvmHashRule"
    /\ returned.list[2].operation = "signEvmTypedData"
    /\ returned.list[3].cls = "SendEvmTransactionRule"

====
